---- MODULE Spec2Model ----
(***************************************************************************)
(* A model of the WhatsApp webhook bridge of basic_wa_bot: the per-user    *)
(* conversation store (core/agent.py, ChatMemory), the tool dispatcher     *)
(* (ToolRunner), the orchestration loop (Agent.process_msg and             *)
(* Agent.async_process_msg) and the webhook handler with its busy guard    *)
(* and inactivity sweep (api.py).                                          *)
(*                                                                         *)
(* Python dicts are functions whose DOMAIN is the set of keys present.     *)
(* Lists are sequences.  A handler coroutine is an entry of tasks[u]; one  *)
(* action of the model is the code a coroutine runs between two points     *)
(* where it yields to the event loop.                                      *)
(***************************************************************************)
EXTENDS Integers, Sequences, FiniteSets, TLC

VARIABLES
    users_in_process,   \* api.py:56   dict user -> bool
    wait_msg_index,     \* api.py:57   dict user -> int
    last_activity,      \* api.py:66   dict user -> timestamp
    chat_memory,        \* api.py:54   bot.chat_memory (messages, tool_msgs, ai_output)
    tasks,              \* the whatsapp_reply coroutines in flight, per user
    now,                \* time.time(), in units of one day
    busy_hits,          \* history variable: busy-hits answered so far, per user
    event,              \* what the last step did: its kind, user, return value, notifications
    paths               \* Agent.process_msg and Agent.async_process_msg side by side

vars == <<users_in_process, wait_msg_index, last_activity, chat_memory,
          tasks, now, busy_hits, event, paths>>

-----------------------------------------------------------------------------
(* Bounds of the model. *)

\* Tool rounds the modelled completion service requests in one run at most.
MaxRounds == 2
\* Busy-hits per user that are explored.
MaxBusyHits == 6
\* The clock stops at this value.
MaxTime == 3
\* A message is accepted only while the user's history holds fewer User
\* messages than this.
MaxTurns == 2

Users == {"u1", "u2"}
\* The users whose runs Spec explores.
RunUsers == {"u1"}
Messages == {"hola"}

-----------------------------------------------------------------------------
(* Python dict operations. *)

EmptyDict == << >>
Has(d, k) == k \in DOMAIN d
Get(d, k, default) == IF k \in DOMAIN d THEN d[k] ELSE default
Put(d, k, v) == [x \in DOMAIN d \cup {k} |-> IF x = k THEN v ELSE d[x]]
Del(d, k) == [x \in DOMAIN d \ {k} |-> d[x]]

\* Python's None, as a return value; no text of the model equals it.
None == "None"

RECURSIVE SelectSeqIdx(_, _, _)
\* [s[i] for i in 1..Len(s) if keep(i)], the list comprehension of Python
SelectSeqIdx(s, keep, i) ==
    IF i > Len(s) THEN << >>
    ELSE IF keep[i] THEN <<s[i]>> \o SelectSeqIdx(s, keep, i + 1)
    ELSE SelectSeqIdx(s, keep, i + 1)

Filter(s, Test(_)) == SelectSeqIdx(s, [i \in 1..Len(s) |-> Test(s[i])], 1)
Contains(s, x) == \E i \in 1..Len(s) : s[i] = x

-----------------------------------------------------------------------------
(* Messages and completion output items. *)

SYSTEM_PROMPT == "SYSTEM_PROMPT"

\* The values of core.enumerations.MessageType that agent.py uses.
MessageType_values ==
    {"developer", "user", "assistant", "function_call", "custom_tool_call"}

MessageType_has_value(role) == role \in MessageType_values

\* ChatMemory.init_msg
init_msg == [role |-> "developer", content |-> SYSTEM_PROMPT]

\* An output item of type "message": content is a list whose first element
\* carries the text; an empty list makes item.content[0].text raise.
MessageItem(content) == [type |-> "message", content |-> content]
ReasoningItem == [type |-> "reasoning"]
FunctionCallItem(id, name, args) ==
    [type |-> "function_call", call_id |-> id, name |-> name, arguments |-> args]
CustomToolCallItem(id, name, input) ==
    [type |-> "custom_tool_call", call_id |-> id, name |-> name, input |-> input]

IsChatMsg(m) == "role" \in DOMAIN m

-----------------------------------------------------------------------------
(* ChatMemory: a record of its three private dicts. *)

NewChatMemory == [messages |-> EmptyDict, tool_msgs |-> EmptyDict, ai_output |-> EmptyDict]

get_ai_output(cm, user_id) ==
    IF ~Has(cm.ai_output, user_id) THEN << >> ELSE cm.ai_output[user_id]

get_tool_msgs(cm, user_id) ==
    IF ~Has(cm.tool_msgs, user_id) THEN << >> ELSE cm.tool_msgs[user_id]

has_chat(cm, user_id) ==
    Has(cm.messages, user_id) /\ Len(cm.messages[user_id]) > 0

\* Whether set_messages raises: a message without a valid role.  A message
\* with no "role" key at all raises KeyError, which is no SetMessagesError.
set_messages_error(messages) ==
    IF \E i \in 1..Len(messages) :
          /\ \A j \in 1..(i - 1) : IsChatMsg(messages[j])
                                   /\ MessageType_has_value(messages[j].role)
          /\ ~IsChatMsg(messages[i])
    THEN "KeyError"
    ELSE IF \E i \in 1..Len(messages) : ~MessageType_has_value(messages[i].role)
    THEN "SetMessagesError"
    ELSE None

\* Mutant: the messages are stored one by one while they are validated.
set_messages_partial_write(cm, messages, user_id) ==
    LET ok(i) == IsChatMsg(messages[i]) /\ MessageType_has_value(messages[i].role)
        n == IF \A i \in 1..Len(messages) : ok(i) THEN Len(messages)
             ELSE (CHOOSE i \in 1..Len(messages) :
                      ~ok(i) /\ \A j \in 1..(i - 1) : ok(j)) - 1
    IN  [cm EXCEPT !.messages = Put(cm.messages, user_id, SubSeq(messages, 1, n))]

set_messages(cm, messages, user_id) ==
    IF set_messages_error(messages) # None THEN cm
    ELSE [cm EXCEPT !.messages = Put(cm.messages, user_id, messages)]

\* Mutant: the new history is left empty.
init_chat_without_prompt(cm, user_id) == set_messages(cm, << >>, user_id)

init_chat(cm, user_id) == set_messages(cm, <<init_msg>>, user_id)

\* The memory after get_messages: the chat is created when absent.
get_messages_mem(cm, user_id) ==
    IF ~Has(cm.messages, user_id) THEN init_chat(cm, user_id) ELSE cm

get_messages(cm, user_id, with_prompt) ==
    LET m == get_messages_mem(cm, user_id).messages[user_id]
    IN  IF with_prompt THEN m ELSE SubSeq(m, 2, Len(m))

\* Mutant: only items shaped as tool outputs are put in the tool buffer.
_set_ai_output_buffers_tool_outputs(cm, ai_output, user_id) ==
    LET c1 == [cm EXCEPT !.ai_output = Put(cm.ai_output, user_id, ai_output)]
        IsOutput(item) == "output" \in DOMAIN item
    IN  IF ~Has(c1.messages, user_id) THEN c1
        ELSE [c1 EXCEPT
                !.tool_msgs = Put(c1.tool_msgs, user_id,
                                  get_tool_msgs(c1, user_id) \o Filter(ai_output, IsOutput)),
                !.messages = Put(c1.messages, user_id,
                                 c1.messages[user_id] \o ai_output)]

_set_ai_output(cm, ai_output, user_id) ==
    LET c1 == [cm EXCEPT !.ai_output = Put(cm.ai_output, user_id, ai_output)]
    IN  IF ~Has(c1.messages, user_id) THEN c1
        ELSE [c1 EXCEPT
                !.tool_msgs = Put(c1.tool_msgs, user_id,
                                  get_tool_msgs(c1, user_id) \o ai_output),
                !.messages = Put(c1.messages, user_id,
                                 c1.messages[user_id] \o ai_output)]

_clean_tool_msgs(cm, user_id) ==
    [cm EXCEPT !.tool_msgs = Put(cm.tool_msgs, user_id, << >>)]

\* Mutant: the dicts are emptied, for every user.
delete_chat_all_users(cm, user_id) ==
    [messages |-> EmptyDict, tool_msgs |-> EmptyDict, ai_output |-> EmptyDict]

\* Mutant: the last raw result of the user is left behind.
delete_chat_keeps_ai_output(cm, user_id) ==
    [messages |-> Del(cm.messages, user_id),
     tool_msgs |-> Del(cm.tool_msgs, user_id),
     ai_output |-> cm.ai_output]

\* Mutant: the tool buffer of the user is left behind.
delete_chat_keeps_tool_msgs(cm, user_id) ==
    [messages |-> Del(cm.messages, user_id),
     tool_msgs |-> cm.tool_msgs,
     ai_output |-> Del(cm.ai_output, user_id)]

delete_chat(cm, user_id) ==
    [messages |-> Del(cm.messages, user_id),
     tool_msgs |-> Del(cm.tool_msgs, user_id),
     ai_output |-> Del(cm.ai_output, user_id)]

\* The value add_msg returns.
add_msg_ok(role) == MessageType_has_value(role)

add_msg(cm, message, role, user_id) ==
    LET c1 == IF ~Has(cm.messages, user_id) THEN init_chat(cm, user_id) ELSE cm
    IN  IF MessageType_has_value(role)
        THEN [c1 EXCEPT !.messages =
                 Put(c1.messages, user_id,
                     Append(c1.messages[user_id], [role |-> role, content |-> message]))]
        ELSE c1

RECURSIVE FirstText(_, _)
FirstText(ai_output, i) ==
    IF i > Len(ai_output) THEN "No Answer"
    ELSE IF ai_output[i].type = "message" /\ Len(ai_output[i].content) > 0
    THEN ai_output[i].content[1]
    ELSE FirstText(ai_output, i + 1)

\* Mutant: only the first message item is looked at.
_get_ai_msg_first_message_only(cm, user_id) ==
    LET ai_output == get_ai_output(cm, user_id)
        msgs == {j \in 1..Len(ai_output) : ai_output[j].type = "message"}
        first == CHOOSE j \in msgs : \A l \in msgs : j <= l
    IN  IF msgs = {} \/ ai_output[first].content = << >> THEN "No Answer"
        ELSE ai_output[first].content[1]

_get_ai_msg(cm, user_id) == FirstText(get_ai_output(cm, user_id), 1)

\* The exception _purge_tool_msgs lets escape (only SetMessagesError is caught).
_purge_tool_msgs_error(cm, user_id) ==
    LET tool_msgs == get_tool_msgs(cm, user_id)
        messages == get_messages(cm, user_id, TRUE)
        NotTool(m) == ~Contains(tool_msgs, m)
        err == set_messages_error(Filter(messages, NotTool))
    IN  IF tool_msgs # << >> /\ err = "KeyError" THEN err ELSE None

\* Mutant: the history is cut by the length of the tool buffer, as the
\* slice messages[:-len(tool_msgs)], which is empty for an empty buffer.
_purge_tool_msgs_by_count(cm, user_id) ==
    LET tool_msgs == get_tool_msgs(cm, user_id)
        c1 == get_messages_mem(cm, user_id)
        messages == c1.messages[user_id]
        n == Len(messages) - Len(tool_msgs)
        clean_messages == IF Len(tool_msgs) = 0 \/ n < 1 THEN << >>
                          ELSE SubSeq(messages, 1, n)
    IN  _clean_tool_msgs(set_messages(c1, clean_messages, user_id), user_id)

\* Mutant: a message is dropped when its text is the text of a buffered one.
_purge_tool_msgs_by_content(cm, user_id) ==
    LET tool_msgs == get_tool_msgs(cm, user_id)
        c1 == get_messages_mem(cm, user_id)
        messages == c1.messages[user_id]
        TextOf(m) == IF "output" \in DOMAIN m THEN m.output
                     ELSE IF "role" \in DOMAIN m THEN m.content
                     ELSE m.type
        NotTool(m) == \A j \in 1..Len(tool_msgs) : TextOf(tool_msgs[j]) # TextOf(m)
    IN  IF tool_msgs # << >>
        THEN _clean_tool_msgs(set_messages(c1, Filter(messages, NotTool), user_id), user_id)
        ELSE c1

\* Mutant: the history is read without the system prompt.
_purge_tool_msgs_without_prompt(cm, user_id) ==
    LET tool_msgs == get_tool_msgs(cm, user_id)
        c1 == get_messages_mem(cm, user_id)
        messages == get_messages(cm, user_id, FALSE)
        NotTool(m) == ~Contains(tool_msgs, m)
    IN  IF tool_msgs # << >>
        THEN _clean_tool_msgs(set_messages(c1, Filter(messages, NotTool), user_id), user_id)
        ELSE c1

_purge_tool_msgs(cm, user_id) ==
    LET tool_msgs == get_tool_msgs(cm, user_id)
        c1 == get_messages_mem(cm, user_id)
        messages == c1.messages[user_id]
        NotTool(m) == ~Contains(tool_msgs, m)
    IN  IF tool_msgs # << >>
        THEN _clean_tool_msgs(set_messages(c1, Filter(messages, NotTool), user_id), user_id)
        ELSE c1

_set_tool_output(cm, call_id, function_out, user_id) ==
    IF ~Has(cm.messages, user_id) THEN cm
    ELSE LET msg == [type |-> "function_call_output", call_id |-> call_id,
                     output |-> function_out]
         IN  [cm EXCEPT
                !.tool_msgs = Put(cm.tool_msgs, user_id,
                                  Append(get_tool_msgs(cm, user_id), msg)),
                !.messages = Put(cm.messages, user_id,
                                 Append(cm.messages[user_id], msg))]

-----------------------------------------------------------------------------
(* The tool registry and what the completion service and the tools may do. *)

\* core/tools/__init__.py: the names of available_tools
available_tools == {"set_user_data", "user_check", "user_register", "fast_user_check"}

\* ToolRunner.ERROR_MSG
ERROR_MSG == "Ha ocurrido un error inesperado"

\* The text gen_ai_msg sends when the run failed.
APOLOGY == "Ha ocurrido un error y el chat fue reiniciado. Por favor, comencemos de nuevo"

\* check_user_availability: wait_messages (0-based in the code, 1-based here)
wait_messages == <<
    "Porfa dame un segundo para terminar de elaborar la respuesta",
    "Un momento, estoy procesando tu pedido - te respondo enseguida",
    "Disculpa la demora, estoy trabajando para darte la mejor respuesta",
    "Estoy revisando la informacion; te escribo en breve",
    "Gracias por la paciencia - preparando tu respuesta ahora mismo" >>

\* Encoded arguments of a function call; json.loads raises on the second.
GoodJson == "{}"
BadJson == "{"
json_loads_raises(arguments) == arguments = BadJson

\* What a tool callable returns when it returns.
ToolOutputs == {"r1", "r2"}

\* The call ids of the requests of round r: the completion service gives
\* every request of a run an id of its own.
CallId(r, k) == 10 * r + k

\* The completion results that end a run: no tool-call item.
FinalOutputs ==
    { <<MessageItem(<<"a1">>)>>,
      <<ReasoningItem, MessageItem(<< >>), MessageItem(<<"a2">>)>>,
      <<ReasoningItem>>,
      <<MessageItem(<<"">>)>> }

\* The completion results of round r that request tools.
ToolOutputsRequested(r) ==
    { <<ReasoningItem, FunctionCallItem(CallId(r, 1), "user_check", GoodJson)>>,
      <<FunctionCallItem(CallId(r, 1), "fast_user_check", GoodJson),
        FunctionCallItem(CallId(r, 2), "user_register", GoodJson)>>,
      <<MessageItem(<<"un momento">>),
        CustomToolCallItem(CallId(r, 1), "user_check", "raw"),
        FunctionCallItem(CallId(r, 2), "set_user_data", GoodJson)>>,
      <<FunctionCallItem(CallId(r, 1), "user_check", GoodJson),
        FunctionCallItem(CallId(r, 2), "unknown_tool", GoodJson)>>,
      <<FunctionCallItem(CallId(r, 1), "user_check", BadJson)>> }

CompletionOutputs(r) ==
    FinalOutputs \cup (IF r <= MaxRounds THEN ToolOutputsRequested(r) ELSE {})

\* The completion results SpecGuard explores.
GuardOutputs == { <<MessageItem(<<"a1">>)>> }

\* The completion results SpecSweep explores in round r.
SweepOutputs(r) ==
    { <<MessageItem(<<"a1">>)>> } \cup
    (IF r <= 1
     THEN { <<ReasoningItem, FunctionCallItem(CallId(r, 1), "user_check", GoodJson)>> }
     ELSE {})

IsFunctionCall(item) == item.type = "function_call"
IsCustomToolCall(item) == item.type = "custom_tool_call"

Pending == [status |-> "pending", value |-> ""]
Returned(v) == [status |-> "returned", value |-> v]
Raised == [status |-> "raised", value |-> ""]

\* How the call of a callable may end at once: a coroutine object is
\* returned ("started") or the call itself raises ("raised").
InvokeOutcomes == {"started", "raised"}

-----------------------------------------------------------------------------
(* ToolRunner, non-blocking. *)

\* Encoded arguments that name an email, and ones that also name a phone of
\* the model's own choosing.
EmailJson == "{\"email\": \"e1\"}"
PhoneJson == "{\"phone\": \"intruso\", \"email\": \"e1\"}"

\* json.loads(function_args) for the encoded arguments of the model: the
\* dict decoded from the text.
json_loads(arguments) ==
    IF arguments = EmailJson THEN [email |-> "e1"]
    ELSE IF arguments = PhoneJson THEN [phone |-> "intruso", email |-> "e1"]
    ELSE EmptyDict

\* Mutant: the acting user is filled in only when the arguments name no phone.
function_kwargs_setdefault(tool, user_id) ==
    IF Has(json_loads(tool.arguments), "phone") THEN json_loads(tool.arguments)
    ELSE Put(json_loads(tool.arguments), "phone", user_id)

\* _async_run_functions: the keyword arguments of the call of one function.
function_kwargs(tool, user_id) ==
    Put(json_loads(tool.arguments), "phone", user_id)

\* _async_run_custom_tools: the keyword arguments of the call of one custom tool.
custom_tool_kwargs(tool) == [tool_input |-> tool.input]

\* _async_run_functions, the loop that builds the coroutines: the first
\* exception it raises, or None.
RECURSIVE async_functions_error(_, _, _)
async_functions_error(functions_called, invoke, k) ==
    IF k > Len(functions_called) THEN None
    ELSE IF functions_called[k].name \notin available_tools THEN "KeyError"
    ELSE IF json_loads_raises(functions_called[k].arguments) THEN "JSONDecodeError"
    ELSE IF invoke[k] = "raised" THEN "CallError"
    ELSE async_functions_error(functions_called, invoke, k + 1)

\* _async_run_custom_tools, the loop that builds the coroutines.
RECURSIVE async_custom_tools_error(_, _, _)
async_custom_tools_error(custom_tools_called, invoke, k) ==
    IF k > Len(custom_tools_called) THEN None
    ELSE IF custom_tools_called[k].name \notin available_tools THEN "KeyError"
    ELSE IF invoke[k] = "raised" THEN "CallError"
    ELSE async_custom_tools_error(custom_tools_called, invoke, k + 1)

\* The output run_coroutines records for one result of gather.
coroutine_out(result) ==
    IF result.status = "raised" THEN ERROR_MSG ELSE result.value

\* Mutant: only the first result of gather is recorded.
run_coroutines_first_only(cm, tools_called, results, user_id, k) ==
    IF Len(tools_called) = 0 \/ Len(results) = 0 THEN cm
    ELSE _set_tool_output(cm, tools_called[1].call_id, coroutine_out(results[1]), user_id)

\* run_coroutines, after gather: zip(tools_called, results), in order.
RECURSIVE run_coroutines(_, _, _, _, _)
run_coroutines(cm, tools_called, results, user_id, k) ==
    IF k > Len(tools_called) \/ k > Len(results) THEN cm
    ELSE run_coroutines(
            _set_tool_output(cm, tools_called[k].call_id, coroutine_out(results[k]), user_id),
            tools_called, results, user_id, k + 1)

-----------------------------------------------------------------------------
(* The webhook service, api.py. *)

\* api.py:60, in days
INACTIVITY_TTL_SECONDS == 1

\* error is the exception that ended the run, or None.
Event(kind, user, reply, sent, error) ==
    [kind |-> kind, user |-> user, reply |-> reply, sent |-> sent, error |-> error]

Notification(to, body) == [to |-> to, body |-> body]

RemoveAt(s, i) == SubSeq(s, 1, i - 1) \o SubSeq(s, i + 1, Len(s))

\* The User messages of the stored history of a user.
Turns(user_number) ==
    LET h == Get(chat_memory.messages, user_number, << >>)
    IN  Cardinality({j \in 1..Len(h) : IsChatMsg(h[j]) /\ h[j].role = "user"})

\* The state of a handler coroutine that awaits its first completion.
NewRun ==
    [pc |-> "AwaitingCompletion", round |-> 1, phase |-> "none",
     calls |-> << >>, kwargs |-> << >>, results |-> << >>, custom |-> << >>,
     order |-> << >>]

\* Mutant: the busy flag is not consulted.
check_user_availability_ignores_flag(user_number) == TRUE

\* check_user_availability: the value returned.
check_user_availability(user_number) ==
    ~Get(users_in_process, user_number, FALSE)

\* check_user_availability: the wait notice chosen for index idx.
wait_message(idx) == wait_messages[(idx % Len(wait_messages)) + 1]

\* Mutant: the index advances and never wraps.
next_wait_index_no_wrap(idx) == idx + 1

\* check_user_availability: the index stored after a busy-hit.
next_wait_index(idx) == (idx + 1) % Len(wait_messages)

\* send_ai_msg for a reply within WORDS_LIMIT: one notification.
send_ai_msg(ai_msg, user_number) == <<Notification(user_number, ai_msg)>>

\* Python's "not ai_msg" for a str or None.
Falsy(ai_msg) == ai_msg = None \/ ai_msg = ""

\* Mutant: the exit does not record the time.
HandlerExit_without_last_activity(u, i) ==
    /\ users_in_process' = Put(users_in_process, u, FALSE)
    /\ last_activity' = last_activity
    /\ tasks' = [tasks EXCEPT ![u] = RemoveAt(@, i)]

\* whatsapp_reply, the finally block: the coroutine i of user u ends.
HandlerExit(u, i) ==
    /\ users_in_process' = Put(users_in_process, u, FALSE)
    /\ last_activity' = Put(last_activity, u, now)
    /\ tasks' = [tasks EXCEPT ![u] = RemoveAt(@, i)]

\* gen_ai_msg, the except branch, and the return of whatsapp_reply after it.
RunFails(u, i, cm, error) ==
    /\ chat_memory' = delete_chat(cm, u)
    /\ event' = Event("failed", u, None, <<Notification(u, APOLOGY)>>, error)
    /\ HandlerExit(u, i)
    /\ UNCHANGED <<wait_msg_index, now, busy_hits, paths>>

\* async_process_msg after the loop, then gen_ai_msg and whatsapp_reply
\* to their return.
RunFinishes(u, i, cm) ==
    IF _purge_tool_msgs_error(cm, u) # None
    THEN RunFails(u, i, _purge_tool_msgs(cm, u), _purge_tool_msgs_error(cm, u))
    ELSE LET c1 == _purge_tool_msgs(cm, u)
             ai_msg == _get_ai_msg(c1, u)
             c2 == add_msg(c1, ai_msg, "assistant", u)
         IN  /\ chat_memory' = c2
             /\ event' = Event("finished", u, ai_msg,
                               IF Falsy(ai_msg) THEN << >> ELSE send_ai_msg(ai_msg, u),
                               None)
             /\ HandlerExit(u, i)
             /\ UNCHANGED <<wait_msg_index, now, busy_hits, paths>>

\* The callables have been called with their keyword arguments and the
\* coroutine suspends in asyncio.gather.
AwaitGather(u, i, cm, phase, calls, custom) ==
    /\ chat_memory' = cm
    /\ tasks' = [tasks EXCEPT ![u][i] =
                   [@ EXCEPT !.pc = "ToolsRequested", !.phase = phase, !.calls = calls,
                             !.kwargs = [k \in 1..Len(calls) |->
                                            IF phase = "functions"
                                            THEN function_kwargs(calls[k], u)
                                            ELSE custom_tool_kwargs(calls[k])],
                             !.results = [k \in 1..Len(calls) |-> Pending],
                             !.custom = custom, !.order = << >>]]
    /\ event' = Event("tools_started", u, None, << >>, None)
    /\ UNCHANGED <<users_in_process, wait_msg_index, last_activity, now, busy_hits, paths>>

\* _async_run_functions up to its await.
StartFunctions(u, i, cm, functions_called, custom, invoke) ==
    IF async_functions_error(functions_called, invoke, 1) # None
    THEN RunFails(u, i, cm, async_functions_error(functions_called, invoke, 1))
    ELSE AwaitGather(u, i, cm, "functions", functions_called, custom)

\* _async_run_custom_tools up to its await.
StartCustomTools(u, i, cm, custom, invoke) ==
    IF async_custom_tools_error(custom, invoke, 1) # None
    THEN RunFails(u, i, cm, async_custom_tools_error(custom, invoke, 1))
    ELSE AwaitGather(u, i, cm, "custom", custom, << >>)

\* Mutant: the message of a busy user is kept in the user's history.
whatsapp_reply_keeps_busy_message(u, m) ==
    IF ~check_user_availability(u)
    THEN LET idx == Get(wait_msg_index, u, 0)
         IN  /\ busy_hits[u] < MaxBusyHits
             /\ wait_msg_index' = Put(wait_msg_index, u, next_wait_index(idx))
             /\ busy_hits' = [busy_hits EXCEPT ![u] = @ + 1]
             /\ chat_memory' = add_msg(chat_memory, m, "user", u)
             /\ event' = Event("busy_hit", u, None, <<Notification(u, wait_message(idx))>>,
                               None)
             /\ UNCHANGED <<users_in_process, last_activity, tasks, now, paths>>
    ELSE /\ Turns(u) < MaxTurns
         /\ users_in_process' = Put(users_in_process, u, TRUE)
         /\ chat_memory' = add_msg(chat_memory, m, "user", u)
         /\ tasks' = [tasks EXCEPT ![u] = Append(@, NewRun)]
         /\ event' = Event("accepted", u, None, << >>, None)
         /\ UNCHANGED <<wait_msg_index, last_activity, now, busy_hits, paths>>

\* POST /whatsapp with a text message m of user u, up to the first await
\* of the completion call (or to the return, for a busy user).
whatsapp_reply(u, m) ==
    IF ~check_user_availability(u)
    THEN LET idx == Get(wait_msg_index, u, 0)
         IN  /\ busy_hits[u] < MaxBusyHits
             /\ wait_msg_index' = Put(wait_msg_index, u, next_wait_index(idx))
             /\ busy_hits' = [busy_hits EXCEPT ![u] = @ + 1]
             /\ event' = Event("busy_hit", u, None, <<Notification(u, wait_message(idx))>>,
                               None)
             /\ UNCHANGED <<users_in_process, last_activity, chat_memory, tasks, now, paths>>
    ELSE /\ Turns(u) < MaxTurns
         /\ users_in_process' = Put(users_in_process, u, TRUE)
         /\ chat_memory' = add_msg(chat_memory, m, "user", u)
         /\ tasks' = [tasks EXCEPT ![u] = Append(@, NewRun)]
         /\ event' = Event("accepted", u, None, << >>, None)
         /\ UNCHANGED <<wait_msg_index, last_activity, now, busy_hits, paths>>

\* Mutant: the loop gives up after its second completion call.
CompletionReturns_round_cap(u, i, ai_output, invoke) ==
    LET run == tasks[u][i]
        cm == _set_ai_output(chat_memory, ai_output, u)
        functions_called == Filter(ai_output, IsFunctionCall)
        custom_tools_called == Filter(ai_output, IsCustomToolCall)
    IN  /\ run.pc = "AwaitingCompletion"
        /\ IF (functions_called = << >> /\ custom_tools_called = << >>) \/ run.round >= 2
           THEN RunFinishes(u, i, cm)
           ELSE IF functions_called # << >>
           THEN StartFunctions(u, i, cm, functions_called, custom_tools_called, invoke)
           ELSE StartCustomTools(u, i, cm, custom_tools_called, invoke)

\* The completion call of coroutine i of user u returns ai_output.
CompletionReturns(u, i, ai_output, invoke) ==
    LET run == tasks[u][i]
        cm == _set_ai_output(chat_memory, ai_output, u)
        functions_called == Filter(ai_output, IsFunctionCall)
        custom_tools_called == Filter(ai_output, IsCustomToolCall)
    IN  /\ run.pc = "AwaitingCompletion"
        /\ IF functions_called = << >> /\ custom_tools_called = << >>
           THEN RunFinishes(u, i, cm)
           ELSE IF functions_called # << >>
           THEN StartFunctions(u, i, cm, functions_called, custom_tools_called, invoke)
           ELSE StartCustomTools(u, i, cm, custom_tools_called, invoke)

\* The completion call of coroutine i of user u raises.
CompletionRaises(u, i) ==
    /\ tasks[u][i].pc = "AwaitingCompletion"
    /\ RunFails(u, i, chat_memory, "CompletionError")

\* One coroutine of the gather ends: it returns a value or it raises.
ToolFinishes(u, i, k, result) ==
    LET run == tasks[u][i]
    IN  /\ run.pc = "ToolsRequested"
        /\ k \in 1..Len(run.results)
        /\ run.results[k] = Pending
        /\ tasks' = [tasks EXCEPT ![u][i].results[k] = result,
                                  ![u][i].order = Append(@, k)]
        /\ event' = Event("tool_finished", u, None, << >>, None)
        /\ UNCHANGED <<users_in_process, wait_msg_index, last_activity, chat_memory,
                       now, busy_hits, paths>>

\* Whether asyncio.gather has every result.
gather_done(results) == \A k \in 1..Len(results) : results[k] # Pending

\* gather returns: run_coroutines records the results; then the custom
\* tools of the round are started, or the next completion call is awaited.
GatherReturns(u, i, invoke) ==
    LET run == tasks[u][i]
        cm == run_coroutines(chat_memory, run.calls, run.results, u, 1)
    IN  /\ run.pc = "ToolsRequested"
        /\ gather_done(run.results)
        /\ IF run.phase = "functions" /\ run.custom # << >>
           THEN StartCustomTools(u, i, cm, run.custom, invoke)
           ELSE /\ chat_memory' = cm
                /\ tasks' = [tasks EXCEPT ![u][i] =
                               [NewRun EXCEPT !.round = run.round + 1,
                                              !.order = run.order]]
                /\ event' = Event("round_done", u, None, << >>, None)
                /\ UNCHANGED <<users_in_process, wait_msg_index, last_activity,
                               now, busy_hits, paths>>

\* Mutant: the busy flag is not consulted.
to_remove_ignores_busy ==
    {phone \in DOMAIN last_activity :
        now - last_activity[phone] > INACTIVITY_TTL_SECONDS}

\* Mutant: the age is computed with the operands exchanged.
to_remove_sign_slip ==
    {phone \in DOMAIN last_activity :
        /\ last_activity[phone] - now > INACTIVITY_TTL_SECONDS
        /\ ~Get(users_in_process, phone, FALSE)}

\* _cleanup_inactive: the users one sweep removes.
to_remove ==
    {phone \in DOMAIN last_activity :
        /\ now - last_activity[phone] > INACTIVITY_TTL_SECONDS
        /\ ~Get(users_in_process, phone, FALSE)}

RECURSIVE delete_chats(_, _)
delete_chats(cm, phones) ==
    IF phones = {} THEN cm
    ELSE LET phone == CHOOSE p \in phones : TRUE
         IN  delete_chats(delete_chat(cm, phone), phones \ {phone})

\* _cleanup_inactive: one iteration of its loop.
Sweep ==
    /\ chat_memory' = delete_chats(chat_memory, to_remove)
    /\ last_activity' = [p \in DOMAIN last_activity \ to_remove |-> last_activity[p]]
    /\ event' = Event("sweep", "", None, << >>, None)
    /\ UNCHANGED <<users_in_process, wait_msg_index, tasks, now, busy_hits, paths>>

\* Time passes.
Tick ==
    /\ now < MaxTime
    /\ now' = now + 1
    /\ event' = Event("tick", "", None, << >>, None)
    /\ UNCHANGED <<users_in_process, wait_msg_index, last_activity, chat_memory,
                   tasks, busy_hits, paths>>

ToolResults == {Raised} \cup {Returned(v) : v \in ToolOutputs}
Invocations(calls) == [1..Len(calls) -> InvokeOutcomes]

\* The requests of ai_output that are dispatched first.
FirstCalls(ai_output) ==
    IF Filter(ai_output, IsFunctionCall) # << >>
    THEN Filter(ai_output, IsFunctionCall)
    ELSE Filter(ai_output, IsCustomToolCall)

\* The two paths are not run by the webhook service.
NoPaths == [pc |-> "none"]

Init ==
    /\ users_in_process = EmptyDict
    /\ wait_msg_index = EmptyDict
    /\ last_activity = EmptyDict
    /\ chat_memory = NewChatMemory
    /\ tasks = [u \in Users |-> << >>]
    /\ now = 0
    /\ busy_hits = [u \in Users |-> 0]
    /\ event = Event("init", "", None, << >>, None)
    /\ paths = NoPaths

\* The service as one user sees it: every completion result and tool
\* outcome of a run.  Only accepted messages are explored here; busy-hits
\* are explored by SpecGuard.
Next ==
    \/ \E u \in RunUsers, m \in Messages :
         check_user_availability(u) /\ whatsapp_reply(u, m)
    \/ \E u \in RunUsers : \E i \in 1..Len(tasks[u]) :
         \E ai_output \in CompletionOutputs(tasks[u][i].round) :
         \E invoke \in Invocations(FirstCalls(ai_output)) :
            CompletionReturns(u, i, ai_output, invoke)
    \/ \E u \in RunUsers : \E i \in 1..Len(tasks[u]) : CompletionRaises(u, i)
    \/ \E u \in RunUsers : \E i \in 1..Len(tasks[u]) :
         \E k \in 1..Len(tasks[u][i].results), result \in ToolResults :
            ToolFinishes(u, i, k, result)
    \/ \E u \in RunUsers : \E i \in 1..Len(tasks[u]) :
         \E invoke \in Invocations(tasks[u][i].custom) : GatherReturns(u, i, invoke)

Spec == Init /\ [][Next]_vars

\* The busy guard: messages of two users arrive at any time, also while a
\* run is in flight; the runs are single completion calls.
NextGuard ==
    \/ \E u \in Users, m \in Messages : whatsapp_reply(u, m)
    \/ \E u \in Users : \E i \in 1..Len(tasks[u]) :
         \E ai_output \in GuardOutputs, invoke \in Invocations(<< >>) :
            CompletionReturns(u, i, ai_output, invoke)
    \/ \E u \in Users : \E i \in 1..Len(tasks[u]) : CompletionRaises(u, i)

SpecGuard == Init /\ [][NextGuard]_vars

\* The inactivity sweep: runs of two users, the clock and the sweep.
NextSweep ==
    \/ \E u \in Users, m \in Messages :
         check_user_availability(u) /\ whatsapp_reply(u, m)
    \/ \E u \in Users : \E i \in 1..Len(tasks[u]) :
         \E ai_output \in SweepOutputs(tasks[u][i].round) :
         \E invoke \in Invocations(FirstCalls(ai_output)) :
            CompletionReturns(u, i, ai_output, invoke)
    \/ \E u \in Users : \E i \in 1..Len(tasks[u]) : CompletionRaises(u, i)
    \/ \E u \in Users : \E i \in 1..Len(tasks[u]) :
         \E k \in 1..Len(tasks[u][i].results), result \in ToolResults :
            ToolFinishes(u, i, k, result)
    \/ \E u \in Users : \E i \in 1..Len(tasks[u]) :
         \E invoke \in Invocations(tasks[u][i].custom) : GatherReturns(u, i, invoke)
    \/ Sweep
    \/ Tick

SpecSweep == Init /\ [][NextSweep]_vars

\* The completion results SpecDispatch explores in round r: function calls
\* whose arguments name an email, a phone, or nothing, and a custom tool call.
DispatchOutputs(r) ==
    { <<MessageItem(<<"a1">>)>> } \cup
    (IF r <= 1
     THEN { <<FunctionCallItem(CallId(r, 1), "user_check", PhoneJson),
              FunctionCallItem(CallId(r, 2), "user_register", EmailJson)>>,
            <<CustomToolCallItem(CallId(r, 1), "user_check", "raw"),
              FunctionCallItem(CallId(r, 2), "set_user_data", GoodJson)>> }
     ELSE {})

\* The calls of the tools: runs of two users whose completion results
\* request functions and custom tools.
NextDispatch ==
    \/ \E u \in Users, m \in Messages :
         check_user_availability(u) /\ whatsapp_reply(u, m)
    \/ \E u \in Users : \E i \in 1..Len(tasks[u]) :
         \E ai_output \in DispatchOutputs(tasks[u][i].round) :
         \E invoke \in Invocations(FirstCalls(ai_output)) :
            CompletionReturns(u, i, ai_output, invoke)
    \/ \E u \in Users : \E i \in 1..Len(tasks[u]) :
         \E k \in 1..Len(tasks[u][i].results) :
            ToolFinishes(u, i, k, Returned("r1"))
    \/ \E u \in Users : \E i \in 1..Len(tasks[u]) :
         \E invoke \in Invocations(tasks[u][i].custom) : GatherReturns(u, i, invoke)

SpecDispatch == Init /\ [][NextDispatch]_vars

\* The text of the messages that arrive while their user is busy; no
\* message that arrives for an idle user has this text.
BusyMessages == {"otro"}

\* Messages for busy users: runs with a tool round for two users, and
\* messages of a text of their own that arrive while the run is in flight.
NextBusy ==
    \/ \E u \in Users, m \in Messages :
         check_user_availability(u) /\ whatsapp_reply(u, m)
    \/ \E u \in Users, m \in BusyMessages :
         ~check_user_availability(u) /\ whatsapp_reply(u, m)
    \/ \E u \in Users : \E i \in 1..Len(tasks[u]) :
         \E ai_output \in SweepOutputs(tasks[u][i].round) :
         \E invoke \in Invocations(FirstCalls(ai_output)) :
            CompletionReturns(u, i, ai_output, invoke)
    \/ \E u \in Users : \E i \in 1..Len(tasks[u]) : CompletionRaises(u, i)
    \/ \E u \in Users : \E i \in 1..Len(tasks[u]) :
         \E k \in 1..Len(tasks[u][i].results) :
            ToolFinishes(u, i, k, Returned("r1"))
    \/ \E u \in Users : \E i \in 1..Len(tasks[u]) :
         \E invoke \in Invocations(tasks[u][i].custom) : GatherReturns(u, i, invoke)

SpecBusy == Init /\ [][NextBusy]_vars

\* whatsapp_reply, an exception that gen_ai_msg does not catch (the
\* cancellation of the coroutine at its await) escapes the try block: the
\* finally block runs, nothing is sent and ChatMemory is left as it is.
HandlerRaises(u, i) ==
    /\ i \in 1..Len(tasks[u])
    /\ event' = Event("escaped", u, None, << >>, "CancelledError")
    /\ HandlerExit(u, i)
    /\ UNCHANGED <<wait_msg_index, chat_memory, now, busy_hits, paths>>

\* The exits of the handler: messages of two users arrive at any time, the
\* runs are single completion calls that return, raise or are cancelled, and
\* time passes.
NextExit ==
    \/ \E u \in Users, m \in Messages : whatsapp_reply(u, m)
    \/ \E u \in Users : \E i \in 1..Len(tasks[u]) :
         \E ai_output \in GuardOutputs, invoke \in Invocations(<< >>) :
            CompletionReturns(u, i, ai_output, invoke)
    \/ \E u \in Users : \E i \in 1..Len(tasks[u]) : CompletionRaises(u, i)
    \/ \E u \in Users : \E i \in 1..Len(tasks[u]) : HandlerRaises(u, i)
    \/ Tick

SpecExit == Init /\ [][NextExit]_vars

\* The steps of a run that the event loop takes whenever the awaited call
\* has returned: a completion call returns, a tool coroutine ends, gather
\* returns.
CompletionStep ==
    \E u \in RunUsers : \E i \in 1..Len(tasks[u]) :
       \E ai_output \in CompletionOutputs(tasks[u][i].round) :
       \E invoke \in Invocations(FirstCalls(ai_output)) :
          CompletionReturns(u, i, ai_output, invoke)

ToolStep ==
    \E u \in RunUsers : \E i \in 1..Len(tasks[u]) :
       \E k \in 1..Len(tasks[u][i].results), result \in ToolResults :
          ToolFinishes(u, i, k, result)

GatherStep ==
    \E u \in RunUsers : \E i \in 1..Len(tasks[u]) :
       \E invoke \in Invocations(tasks[u][i].custom) : GatherReturns(u, i, invoke)

\* Spec with every awaited call returning; the completion service requests
\* tools in MaxRounds rounds of a run at most.  The first conjunct of the
\* fairness is WF_vars(CompletionStep) with its ENABLED written out:
\* CompletionStep is enabled exactly when a run awaits a completion.
FairRun ==
    /\ Spec
    /\ \/ []<>(\A u \in RunUsers : \A i \in 1..Len(tasks[u]) :
                  tasks[u][i].pc # "AwaitingCompletion")
       \/ []<><<CompletionStep>>_vars
    /\ WF_vars(ToolStep)
    /\ WF_vars(GatherStep)

-----------------------------------------------------------------------------
(* GET /whatsapp: the verification of the webhook. *)

MaxRequests == 2

\* config.WHATSAPP_VERIFY_TOKEN
WHATSAPP_VERIFY_TOKEN == "secret"

Digits == <<"0", "1", "2", "3", "4", "5", "6", "7", "8", "9">>

\* Whether int(challenge) returns; it raises TypeError for None (the
\* parameter is absent) and ValueError for a text that is no decimal numeral.
int_error(param) ==
    IF ~param.present THEN "TypeError"
    ELSE IF \/ param.chars = << >>
            \/ \E j \in 1..Len(param.chars) : \A d \in 1..10 : Digits[d] # param.chars[j]
    THEN "ValueError"
    ELSE None

RECURSIVE int_value(_)
\* int(chars) of a decimal numeral
int_value(chars) ==
    IF chars = << >> THEN 0
    ELSE 10 * int_value(SubSeq(chars, 1, Len(chars) - 1))
         + (CHOOSE d \in 1..10 : Digits[d] = chars[Len(chars)]) - 1

\* verify_webhook, the try block: the value returned or the exception raised.
verify_webhook_try(mode, challenge, token) ==
    IF mode = "subscribe" /\ token = WHATSAPP_VERIFY_TOKEN
    THEN IF int_error(challenge) # None
         THEN [raised |-> int_error(challenge)]
         ELSE [raised |-> None, value |-> int_value(challenge.chars)]
    ELSE [raised |-> "HTTPException", status_code |-> 403]

HTTPResponse(status, body) == [status |-> status, body |-> body]

\* verify_webhook: HTTPException is an Exception, so the except branch
\* receives whatever the try block raises.
verify_webhook(mode, challenge, token) ==
    LET outcome == verify_webhook_try(mode, challenge, token)
    IN  IF outcome.raised # None
        THEN HTTPResponse(500, "Internal Server Error")
        ELSE HTTPResponse(200, outcome.value)

\* A GET /whatsapp request is answered; paths keeps the statuses answered.
VerifyRequest(mode, challenge, token) ==
    /\ Len(paths.served) < MaxRequests
    /\ event' = [kind |-> "verify", mode |-> mode, challenge |-> challenge,
                 token |-> token, response |-> verify_webhook(mode, challenge, token)]
    /\ paths' = [paths EXCEPT !.served =
                    Append(@, verify_webhook(mode, challenge, token).status)]
    /\ UNCHANGED <<users_in_process, wait_msg_index, last_activity, chat_memory,
                   tasks, now, busy_hits>>

InitVerify ==
    /\ users_in_process = EmptyDict
    /\ wait_msg_index = EmptyDict
    /\ last_activity = EmptyDict
    /\ chat_memory = NewChatMemory
    /\ tasks = [u \in Users |-> << >>]
    /\ now = 0
    /\ busy_hits = [u \in Users |-> 0]
    /\ event = [kind |-> "init"]
    /\ paths = [pc |-> "verify", served |-> << >>]

\* The requests: hub.challenge is absent, a numeral or another text.
NextVerify ==
    \E mode \in {None, "subscribe", "unsubscribe"},
       token \in {None, WHATSAPP_VERIFY_TOKEN, "wrong"},
       challenge \in {[present |-> FALSE]} \cup
                     {[present |-> TRUE, chars |-> c] :
                         c \in {<<"4", "2">>, <<"0", "7">>, <<"x">>, << >>}} :
       VerifyRequest(mode, challenge, token)

SpecVerify == InitVerify /\ [][NextVerify]_vars

-----------------------------------------------------------------------------
(* core/tools: the registry of users in users.json. *)

MaxUsers == 3

\* A record of users.json.
UserRecord(email, phone, telegram_id, name) ==
    [email |-> email, phone |-> phone, telegram_id |-> telegram_id, name |-> name]

\* users.json once written; the absent file is read as the empty list.
UsersFile(users) == [exists |-> TRUE, users |-> users]

\* Whether a record of the file has the email.
HasEmail(file, email) == \E j \in 1..Len(file.users) : file.users[j].email = email

\* What a tool leaves and returns.
ToolOutcome(file, result) == [file |-> file, result |-> result]

\* set_user_data: the record found is bound to the loop variable only; the
\* list that is written back is the list that was read.
set_user_data(file, email, name, phone, telegram_id) ==
    LET users == file.users
    IN  IF HasEmail(file, email)
        THEN ToolOutcome(UsersFile(users), <<"Datos actualizados">>)
        ELSE ToolOutcome(file, <<"El usuario con email ", email, " no está registrado">>)

\* user_check: the first record with the phone, or with the email when an
\* email is given, decides; the phone is compared first.
user_check(file, phone, email) ==
    LET users == file.users
        Truthy(x) == x # None /\ x # ""
        Hit(j) == users[j].phone = phone \/ (Truthy(email) /\ users[j].email = email)
    IN  IF \E j \in 1..Len(users) : Hit(j)
        THEN LET j == CHOOSE k \in 1..Len(users) : Hit(k) /\ \A l \in 1..(k - 1) : ~Hit(l)
             IN  IF users[j].phone = phone
                 THEN ToolOutcome(file,
                         <<"El usuario con el telefono ", phone, " ya está registrado">>)
                 ELSE ToolOutcome(UsersFile([users EXCEPT ![j].phone = phone]),
                         <<"El usuario con email ", email,
                           " ya estaba registrado. Se le ha asignado su numero de telefono">>)
        ELSE ToolOutcome(file,
                <<"El usuario con el telefono ", phone, " y el email ", email,
                  " no está registrado">>)

fast_user_check(file, phone) == user_check(file, phone, "")

\* Mutant: the record is appended without the search.
user_register_without_search(file, email, name, phone, telegram_id) ==
    ToolOutcome(UsersFile(Append(file.users, UserRecord(email, phone, telegram_id, name))),
                <<"Usuario ", email, " registrado exitosamente">>)

user_register(file, email, name, phone, telegram_id) ==
    LET users == file.users
    IN  IF HasEmail(file, email)
        THEN ToolOutcome(file, <<"El usuario con email ", email, " ya está registrado">>)
        ELSE ToolOutcome(
                UsersFile(Append(users, UserRecord(email, phone, telegram_id, name))),
                <<"Usuario ", email, " registrado exitosamente">>)

ToolEmails == {"a@x", "b@x"}
ToolPhones == {None, "p1", "p2"}

\* A tool has run: paths is users.json, event the call with the file it found.
ToolCall(tool, email, name, phone, outcome) ==
    /\ Len(outcome.file.users) <= MaxUsers
    /\ event' = [kind |-> tool, email |-> email, name |-> name, phone |-> phone,
                 telegram_id |-> None, before |-> paths.file, result |-> outcome.result]
    /\ paths' = [paths EXCEPT !.file = outcome.file]
    /\ UNCHANGED <<users_in_process, wait_msg_index, last_activity, chat_memory,
                   tasks, now, busy_hits>>

\* users.json is absent, empty, or holds records of pairwise distinct emails.
InitTools ==
    /\ users_in_process = EmptyDict
    /\ wait_msg_index = EmptyDict
    /\ last_activity = EmptyDict
    /\ chat_memory = NewChatMemory
    /\ tasks = [u \in Users |-> << >>]
    /\ now = 0
    /\ busy_hits = [u \in Users |-> 0]
    /\ event = [kind |-> "init"]
    /\ \E file \in {[exists |-> FALSE, users |-> << >>], UsersFile(<< >>),
                    UsersFile(<<UserRecord("a@x", "p1", None, "ana")>>),
                    UsersFile(<<UserRecord("b@x", None, None, None),
                                UserRecord("a@x", "p1", None, "ana")>>)} :
          paths = [pc |-> "tools", file |-> file]

NextTools ==
    \/ \E email \in ToolEmails, name \in {None, "ana"}, phone \in ToolPhones :
         ToolCall("set_user_data", email, name, phone,
                  set_user_data(paths.file, email, name, phone, None))
    \/ \E email \in ToolEmails \cup {""}, phone \in ToolPhones :
         ToolCall("user_check", email, None, phone, user_check(paths.file, phone, email))
    \/ \E phone \in ToolPhones :
         ToolCall("fast_user_check", "", None, phone, fast_user_check(paths.file, phone))
    \/ \E email \in ToolEmails, name \in {None, "ana"}, phone \in ToolPhones :
         ToolCall("user_register", email, name, phone,
                  user_register(paths.file, email, name, phone, None))

SpecTools == InitTools /\ [][NextTools]_vars

-----------------------------------------------------------------------------
(* send_ai_msg: a reply is sent whole or in chunks.  Texts are sequences   *)
(* of characters; the positions of the code are 0-based, SubSeq is 1-based. *)

MaxLen == 5
MaxLimit == 3

\* str.strip(): the text without its leading and trailing whitespace.
strip(text) ==
    LET Black(j) == text[j] \notin {" ", "\n", "\t"}
    IN  IF \A j \in 1..Len(text) : ~Black(j) THEN << >>
        ELSE SubSeq(text,
                    CHOOSE j \in 1..Len(text) : Black(j) /\ \A k \in 1..(j - 1) : ~Black(k),
                    CHOOSE j \in 1..Len(text) : Black(j) /\ \A k \in (j + 1)..Len(text) : ~Black(k))

\* The end of the chunk that starts at start: the limit or the end of the
\* text, moved back to the last newline after start when the cut would fall
\* before a character that is no newline.
chunk_end(ai_msg, start, limit) ==
    LET end == IF start + limit <= Len(ai_msg) THEN start + limit ELSE Len(ai_msg)
        found == {p \in start..(end - 1) : ai_msg[p + 1] = "\n"}
        newline_pos == IF found = {} THEN -1
                       ELSE CHOOSE p \in found : \A q \in found : q <= p
    IN  IF end < Len(ai_msg) /\ ai_msg[end + 1] # "\n" /\ newline_pos > start
        THEN newline_pos
        ELSE end

\* Mutant: the character at the cut is skipped whatever it is.
next_start_skips_always(ai_msg, end) == end + 1

\* The start of the next chunk: a newline at the cut is skipped.
next_start(ai_msg, end) ==
    IF end < Len(ai_msg) /\ ai_msg[end + 1] = "\n" THEN end + 1 ELSE end

\* send_ai_msg is called with a reply and WORDS_LIMIT = limit: a reply
\* within the limit is sent at once, a longer one enters the loop.  paths
\* holds the position of the call, the texts sent and the cuts made.
SendBegins(ai_msg, limit) ==
    /\ paths.pc = "idle"
    /\ paths' = IF Len(ai_msg) <= limit
                THEN [pc |-> "done", ai_msg |-> ai_msg, limit |-> limit, start |-> 0,
                      sent |-> <<ai_msg>>, cuts |-> << >>]
                ELSE [pc |-> "loop", ai_msg |-> ai_msg, limit |-> limit, start |-> 0,
                      sent |-> << >>, cuts |-> << >>]
    /\ event' = [kind |-> "send_ai_msg"]
    /\ UNCHANGED <<users_in_process, wait_msg_index, last_activity, chat_memory,
                   tasks, now, busy_hits>>

\* One iteration of the while loop.
SendIteration ==
    /\ paths.pc = "loop"
    /\ paths.start < Len(paths.ai_msg)
    /\ LET end == chunk_end(paths.ai_msg, paths.start, paths.limit)
           start == next_start(paths.ai_msg, end)
       IN  paths' = [paths EXCEPT
                        !.sent = Append(@, strip(SubSeq(paths.ai_msg, paths.start + 1, end))),
                        !.cuts = Append(@, <<paths.start, end>>),
                        !.start = start,
                        !.pc = IF start < Len(paths.ai_msg) THEN "loop" ELSE "done"]
    /\ event' = [kind |-> "chunk"]
    /\ UNCHANGED <<users_in_process, wait_msg_index, last_activity, chat_memory,
                   tasks, now, busy_hits>>

InitSend ==
    /\ users_in_process = EmptyDict
    /\ wait_msg_index = EmptyDict
    /\ last_activity = EmptyDict
    /\ chat_memory = NewChatMemory
    /\ tasks = [u \in Users |-> << >>]
    /\ now = 0
    /\ busy_hits = [u \in Users |-> 0]
    /\ event = [kind |-> "init"]
    /\ paths = [pc |-> "idle"]

\* The replies are the texts of up to MaxLen characters, the limits 1..MaxLimit.
NextSend ==
    \/ \E n \in 0..MaxLen : \E ai_msg \in [1..n -> {"a", " ", "\n"}] :
       \E limit \in 1..MaxLimit : SendBegins(ai_msg, limit)
    \/ SendIteration

\* The loop has no await: an iteration that can run does run.
SpecSend == InitSend /\ [][NextSend]_vars /\ WF_vars(SendIteration)

-----------------------------------------------------------------------------
(* ToolRunner, blocking, and the two forms of the orchestration loop run   *)
(* side by side on the same completion results and tool outcomes.          *)

\* _run_functions, the loop that submits the calls: the first exception it
\* raises, or None.  A call that raises does so inside the executor.
RECURSIVE sync_functions_error(_, _)
sync_functions_error(functions_called, k) ==
    IF k > Len(functions_called) THEN None
    ELSE IF functions_called[k].name \notin available_tools THEN "KeyError"
    ELSE IF json_loads_raises(functions_called[k].arguments) THEN "JSONDecodeError"
    ELSE sync_functions_error(functions_called, k + 1)

\* _run_custom_tools, the loop that submits the calls.
RECURSIVE sync_custom_tools_error(_, _)
sync_custom_tools_error(custom_tools_called, k) ==
    IF k > Len(custom_tools_called) THEN None
    ELSE IF custom_tools_called[k].name \notin available_tools THEN "KeyError"
    ELSE sync_custom_tools_error(custom_tools_called, k + 1)

\* The future of a submitted call: the call runs in a worker thread, so a
\* failure of the call itself is held by the future like any other.
submit(outcome) == IF outcome.invoke = "raised" THEN Raised ELSE outcome.result

\* run_futures: the output recorded for one future.
future_out(future) ==
    IF future.status = "raised" THEN ERROR_MSG ELSE future.value

\* run_futures: zip(futures, tools_called), in order.
RECURSIVE run_futures(_, _, _, _, _)
run_futures(cm, futures, tools_called, user_id, k) ==
    IF k > Len(tools_called) \/ k > Len(futures) THEN cm
    ELSE run_futures(
            _set_tool_output(cm, tools_called[k].call_id, future_out(futures[k]), user_id),
            futures, tools_called, user_id, k + 1)

\* How one tool call goes: whether the call of the callable raises at once,
\* and what the callable does otherwise.
PathOutcomes ==
    { [invoke |-> "started", result |-> Returned("r1")],
      [invoke |-> "started", result |-> Raised],
      [invoke |-> "raised", result |-> Raised] }

\* The outcomes of the items of ai_output that satisfy Test, in order.
OutcomesOf(ai_output, outcomes, Test(_)) ==
    SelectSeqIdx([j \in 1..Len(ai_output) |-> outcomes[j]],
                 [j \in 1..Len(ai_output) |-> Test(ai_output[j])], 1)

MapSeq(s, F(_)) == [j \in 1..Len(s) |-> F(s[j])]
InvokeOf(outcome) == outcome.invoke
ResultOf(outcome) == outcome.result

\* The state of a call of process_msg or async_process_msg.
PathState(status, reply, error, cm, round) ==
    [status |-> status, reply |-> reply, error |-> error, cm |-> cm, round |-> round]

\* The code after the loop, the same in both forms.
after_loop(st, cm, user_id) ==
    IF _purge_tool_msgs_error(cm, user_id) # None
    THEN PathState("failed", None, _purge_tool_msgs_error(cm, user_id),
                   _purge_tool_msgs(cm, user_id), st.round)
    ELSE LET c1 == _purge_tool_msgs(cm, user_id)
             ai_msg == _get_ai_msg(c1, user_id)
         IN  PathState("done", ai_msg, None,
                       add_msg(c1, ai_msg, "assistant", user_id), st.round)

\* Agent.process_msg: one iteration of its loop, on the completion result
\* ai_output and the outcomes of the calls it requests.
process_msg_round(st, user_id, ai_output, outcomes) ==
    LET cm == _set_ai_output(st.cm, ai_output, user_id)
        functions_called == Filter(ai_output, IsFunctionCall)
        custom_tools_called == Filter(ai_output, IsCustomToolCall)
        f_futures == MapSeq(OutcomesOf(ai_output, outcomes, IsFunctionCall), submit)
        c_futures == MapSeq(OutcomesOf(ai_output, outcomes, IsCustomToolCall), submit)
        f_err == IF functions_called = << >> THEN None
                 ELSE sync_functions_error(functions_called, 1)
        c1 == run_futures(cm, f_futures, functions_called, user_id, 1)
        c_err == IF custom_tools_called = << >> THEN None
                 ELSE sync_custom_tools_error(custom_tools_called, 1)
        c2 == run_futures(c1, c_futures, custom_tools_called, user_id, 1)
    IN  IF functions_called = << >> /\ custom_tools_called = << >>
        THEN after_loop(st, cm, user_id)
        ELSE IF f_err # None THEN PathState("failed", None, f_err, cm, st.round)
        ELSE IF c_err # None THEN PathState("failed", None, c_err, c1, st.round)
        ELSE PathState("running", None, None, c2, st.round + 1)

\* Agent.async_process_msg: one iteration of its loop.
async_process_msg_round(st, user_id, ai_output, outcomes) ==
    LET cm == _set_ai_output(st.cm, ai_output, user_id)
        functions_called == Filter(ai_output, IsFunctionCall)
        custom_tools_called == Filter(ai_output, IsCustomToolCall)
        f_outcomes == OutcomesOf(ai_output, outcomes, IsFunctionCall)
        c_outcomes == OutcomesOf(ai_output, outcomes, IsCustomToolCall)
        f_err == IF functions_called = << >> THEN None
                 ELSE async_functions_error(functions_called, MapSeq(f_outcomes, InvokeOf), 1)
        c1 == run_coroutines(cm, functions_called, MapSeq(f_outcomes, ResultOf), user_id, 1)
        c_err == IF custom_tools_called = << >> THEN None
                 ELSE async_custom_tools_error(custom_tools_called,
                                               MapSeq(c_outcomes, InvokeOf), 1)
        c2 == run_coroutines(c1, custom_tools_called, MapSeq(c_outcomes, ResultOf), user_id, 1)
    IN  IF functions_called = << >> /\ custom_tools_called = << >>
        THEN after_loop(st, cm, user_id)
        ELSE IF f_err # None THEN PathState("failed", None, f_err, cm, st.round)
        ELSE IF c_err # None THEN PathState("failed", None, c_err, c1, st.round)
        ELSE PathState("running", None, None, c2, st.round + 1)

\* The conversations a call may start from: none, and one earlier exchange.
PathMemories ==
    { NewChatMemory,
      add_msg(add_msg(NewChatMemory, "hola", "user", "u1"), "a1", "assistant", "u1") }

\* Both forms are called with message m for user u1: add_msg, then the loop.
PathsStart(m) ==
    /\ paths.pc = "idle"
    /\ paths' = [pc |-> "run",
                 blocking |-> PathState("running", None, None,
                                        add_msg(paths.cm, m, "user", "u1"), 1),
                 nonblocking |-> PathState("running", None, None,
                                           add_msg(paths.cm, m, "user", "u1"), 1)]
    /\ UNCHANGED <<users_in_process, wait_msg_index, last_activity, chat_memory,
                   tasks, now, busy_hits, event>>

\* The completion call of the round returns ai_output to each form that is
\* still running, and the tools it requests go as outcomes says.
PathsCompletionReturns(ai_output, outcomes) ==
    /\ paths.pc = "run"
    /\ paths.blocking.status = "running" \/ paths.nonblocking.status = "running"
    /\ paths' = [paths EXCEPT
                   !.blocking = IF @.status = "running"
                                THEN process_msg_round(@, "u1", ai_output, outcomes)
                                ELSE @,
                   !.nonblocking = IF @.status = "running"
                                   THEN async_process_msg_round(@, "u1", ai_output, outcomes)
                                   ELSE @]
    /\ UNCHANGED <<users_in_process, wait_msg_index, last_activity, chat_memory,
                   tasks, now, busy_hits, event>>

\* The completion call of the round raises in each form that is still
\* running: the exception leaves the call, the memory stays as it is.
PathsCompletionRaises ==
    /\ paths.pc = "run"
    /\ paths.blocking.status = "running" \/ paths.nonblocking.status = "running"
    /\ paths' = [paths EXCEPT
                   !.blocking = IF @.status = "running"
                                THEN [@ EXCEPT !.status = "failed",
                                               !.error = "CompletionError"]
                                ELSE @,
                   !.nonblocking = IF @.status = "running"
                                   THEN [@ EXCEPT !.status = "failed",
                                                  !.error = "CompletionError"]
                                   ELSE @]
    /\ UNCHANGED <<users_in_process, wait_msg_index, last_activity, chat_memory,
                   tasks, now, busy_hits, event>>

InitPaths ==
    /\ users_in_process = EmptyDict
    /\ wait_msg_index = EmptyDict
    /\ last_activity = EmptyDict
    /\ chat_memory = NewChatMemory
    /\ tasks = [u \in Users |-> << >>]
    /\ now = 0
    /\ busy_hits = [u \in Users |-> 0]
    /\ event = Event("init", "", None, << >>, None)
    /\ paths \in {[pc |-> "idle", cm |-> cm] : cm \in PathMemories}

PathRound ==
    IF paths.pc # "run" THEN 1
    ELSE IF paths.blocking.round > paths.nonblocking.round THEN paths.blocking.round
    ELSE paths.nonblocking.round

NextPaths ==
    \/ \E m \in Messages : PathsStart(m)
    \/ \E ai_output \in CompletionOutputs(PathRound) :
         \E outcomes \in [1..Len(ai_output) -> PathOutcomes] :
            PathsCompletionReturns(ai_output, outcomes)
    \/ PathsCompletionRaises

SpecPaths == InitPaths /\ [][NextPaths]_vars

-----------------------------------------------------------------------------
(* The conversation store on its own: the operations of ChatMemory called  *)
(* in any order, for two users, with valid and invalid arguments.          *)

\* A history grows only while it is shorter than this.
MaxHistory == 3

\* The user whose conversation every operation is applied to, and a second
\* user whose conversation is only created and deleted.
StoreUsers == {"u1"}
OtherUsers == {"u2"}

\* The roles add_msg is called with; the last is not a value of MessageType.
MemRoles == MessageType_values \cup {"bogus"}
\* The text of the messages; "r1" is also what a tool returns.
MemContents == {"r1"}

\* The lists set_messages is called with: valid ones, and ones with a
\* message of invalid role at the first, a middle and the last position.
ReplaceLists ==
    { << >>,
      <<init_msg, [role |-> "user", content |-> "r1"]>>,
      <<[role |-> "bogus", content |-> "r1"]>>,
      <<init_msg, [role |-> "user", content |-> "r1"],
        [role |-> "bogus", content |-> "r1"]>>,
      <<init_msg, [role |-> "bogus", content |-> "r1"],
        [role |-> "assistant", content |-> "r1"]>> }

\* The completion results _set_ai_output is called with.
MemOutputs ==
    { <<MessageItem(<<"r1">>)>>,
      <<ReasoningItem, FunctionCallItem(CallId(1, 1), "user_check", GoodJson)>> }

\* What a call of an operation of ChatMemory did: its arguments, the value
\* it returned, the exception it raised, and whether the user had a history
\* and what the user's tool buffer held when it was called.
MemEvent(kind, user, args, reply, error) ==
    [kind |-> kind, user |-> user, args |-> args, reply |-> reply, error |-> error,
     existed |-> Has(chat_memory.messages, user),
     buffered |-> IF user \in Users THEN get_tool_msgs(chat_memory, user) ELSE << >>]

\* The length of the longer of the stored history and the tool buffer of a
\* user, 0 when there is none.
HistoryLen(cm, user_id) ==
    LET h == Len(Get(cm.messages, user_id, << >>))
        b == Len(get_tool_msgs(cm, user_id))
    IN  IF h >= b THEN h ELSE b

MemFrame ==
    UNCHANGED <<users_in_process, wait_msg_index, last_activity, tasks, now,
                busy_hits, paths>>

Call_get_messages(user_id, with_prompt) ==
    /\ chat_memory' = get_messages_mem(chat_memory, user_id)
    /\ event' = MemEvent("get_messages", user_id, <<with_prompt>>,
                         get_messages(chat_memory, user_id, with_prompt), None)
    /\ MemFrame

Call_set_messages(user_id, messages) ==
    /\ chat_memory' = set_messages(chat_memory, messages, user_id)
    /\ event' = MemEvent("set_messages", user_id, <<messages>>, None,
                         set_messages_error(messages))
    /\ MemFrame

Call_add_msg(user_id, message, role) ==
    /\ HistoryLen(chat_memory, user_id) < MaxHistory
    /\ chat_memory' = add_msg(chat_memory, message, role, user_id)
    /\ event' = MemEvent("add_msg", user_id, <<message, role>>, add_msg_ok(role), None)
    /\ MemFrame

Call_set_ai_output(user_id, ai_output) ==
    /\ HistoryLen(chat_memory, user_id) + Len(ai_output) <= MaxHistory + 1
    /\ chat_memory' = _set_ai_output(chat_memory, ai_output, user_id)
    /\ event' = MemEvent("_set_ai_output", user_id, <<ai_output>>,
                         IF Has(chat_memory.messages, user_id) THEN None ELSE FALSE,
                         None)
    /\ MemFrame

Call_set_tool_output(user_id, call_id, function_out) ==
    /\ HistoryLen(chat_memory, user_id) < MaxHistory
    /\ chat_memory' = _set_tool_output(chat_memory, call_id, function_out, user_id)
    /\ event' = MemEvent("_set_tool_output", user_id, <<call_id, function_out>>,
                         IF Has(chat_memory.messages, user_id) THEN None ELSE FALSE,
                         None)
    /\ MemFrame

Call_purge_tool_msgs(user_id) ==
    /\ chat_memory' = _purge_tool_msgs(chat_memory, user_id)
    /\ event' = MemEvent("_purge_tool_msgs", user_id, << >>, None,
                         _purge_tool_msgs_error(chat_memory, user_id))
    /\ MemFrame

Call_delete_chat(user_id) ==
    /\ chat_memory' = delete_chat(chat_memory, user_id)
    /\ event' = MemEvent("delete_chat", user_id, << >>, None, None)
    /\ MemFrame

InitMemory ==
    /\ users_in_process = EmptyDict
    /\ wait_msg_index = EmptyDict
    /\ last_activity = EmptyDict
    /\ chat_memory = NewChatMemory
    /\ tasks = [u \in Users |-> << >>]
    /\ now = 0
    /\ busy_hits = [u \in Users |-> 0]
    /\ event = MemEvent("init", "", << >>, None, None)
    /\ paths = NoPaths

NextMemory ==
    \/ \E u \in StoreUsers \cup OtherUsers, with_prompt \in BOOLEAN :
         Call_get_messages(u, with_prompt)
    \/ \E u \in StoreUsers, messages \in ReplaceLists : Call_set_messages(u, messages)
    \/ \E u \in StoreUsers, message \in MemContents, role \in MemRoles :
         Call_add_msg(u, message, role)
    \/ \E u \in StoreUsers, ai_output \in MemOutputs : Call_set_ai_output(u, ai_output)
    \/ \E u \in StoreUsers, function_out \in MemContents :
         Call_set_tool_output(u, CallId(1, 1), function_out)
    \/ \E u \in StoreUsers : Call_purge_tool_msgs(u)
    \/ \E u \in StoreUsers \cup OtherUsers : Call_delete_chat(u)

SpecMemory == InitMemory /\ [][NextMemory]_vars

-----------------------------------------------------------------------------
(* The busy guard. *)

\* C1: for every user at most one whatsapp_reply coroutine is past the busy
\* check (one orchestration run in flight), in every interleaving of inbound
\* messages; and the busy flag of a user is set while the run is in flight.
C1_AtMostOneRunPerUser ==
    \A u \in Users :
        /\ Len(tasks[u]) <= 1
        /\ Len(tasks[u]) = 1 => Get(users_in_process, u, FALSE)

\* A message arrived for a user whose run is in flight, and it was turned away.
C1_Witness ==
    /\ event.kind = "busy_hit"
    /\ Len(tasks[event.user]) = 1
    /\ tasks[event.user][1].pc = "AwaitingCompletion"

\* C2: a message for a busy user starts no completion call and changes no
\* conversation; the k-th busy-hit of a user is answered with template
\* (k-1) mod 5 of the five wait notices, the stored index of that user is
\* k mod 5 afterwards, and the indices of the other users stay as they were.
C2_BusyHitRotatesWaitNotice ==
    [][\A u \in Users :
         (event'.kind = "busy_hit" /\ event'.user = u) =>
            /\ Len(tasks[u]) > 0
            /\ tasks' = tasks
            /\ chat_memory' = chat_memory
            /\ busy_hits'[u] = busy_hits[u] + 1
            /\ Len(wait_messages) = 5
            /\ event'.sent =
                 <<Notification(u, wait_messages[((busy_hits'[u] - 1) % 5) + 1])>>
            /\ wait_msg_index'[u] = busy_hits'[u] % 5
            /\ \A v \in Users \ {u} :
                 /\ Has(wait_msg_index', v) = Has(wait_msg_index, v)
                 /\ Get(wait_msg_index', v, 0) = Get(wait_msg_index, v, 0)
      ]_vars

\* The sixth busy-hit of u1 (the index has wrapped) while u2 has had two.
C2_Witness ==
    /\ event.kind = "busy_hit"
    /\ event.user = "u1"
    /\ busy_hits["u1"] = 6
    /\ busy_hits["u2"] = 2
    /\ event.sent = <<Notification("u1", wait_messages[1])>>

-----------------------------------------------------------------------------
(* One run: completion failures, tool failures, the final answer. *)

IsRequest(m) == ~IsChatMsg(m) /\ m.type \in {"function_call", "custom_tool_call"}
IsToolOutput(m) == ~IsChatMsg(m) /\ m.type = "function_call_output"
NoToolCalls(ai_output) == \A j \in 1..Len(ai_output) : ~IsRequest(ai_output[j])

\* The tool outputs of history h that answer the request h[j].
OutputsFor(h, j) ==
    {k \in 1..Len(h) : IsToolOutput(h[k]) /\ h[k].call_id = h[j].call_id}

\* C3: when a completion call raises, gen_ai_msg returns None, nothing of
\* the user's conversation is left (history, tool buffer, last raw result),
\* the apology is the one notification dispatched, and no completion call
\* is pending for the user (the call is not retried).
C3_CompletionFailureResets ==
    (event.kind = "failed" /\ event.error = "CompletionError") =>
        LET u == event.user
        IN  /\ event.reply = None
            /\ ~Has(chat_memory.messages, u)
            /\ ~Has(chat_memory.tool_msgs, u)
            /\ ~Has(chat_memory.ai_output, u)
            /\ ~has_chat(chat_memory, u)
            /\ event.sent = <<Notification(u, APOLOGY)>>
            /\ tasks[u] = << >>

\* A completion call of u1 has just raised.
C3_Witness ==
    /\ event.kind = "failed"
    /\ event.error = "CompletionError"
    /\ event.user = "u1"
    /\ Has(users_in_process, "u1")

\* C4, as claimed: a tool callable that raises never aborts the run, and
\* when the results of a round in which a callable failed are recorded,
\* the history grows by one tool output per request, in request order,
\* each with the call id of its request, the failing ones with ERROR_MSG
\* and the others with the value returned, and the run goes on.
C4_ToolFailuresAbsorbed ==
    [][\A u \in RunUsers :
         /\ (event'.kind = "failed" /\ event'.user = u) => event'.error # "CallError"
         /\ ( /\ Len(tasks[u]) = 1
              /\ tasks[u][1].pc = "ToolsRequested"
              /\ gather_done(tasks[u][1].results)
              /\ \E k \in 1..Len(tasks[u][1].results) : tasks[u][1].results[k] = Raised
              /\ tasks'[u] # tasks[u] )
            => \/ event'.error \in {"KeyError", "JSONDecodeError"}
               \/ LET calls == tasks[u][1].calls
                      results == tasks[u][1].results
                      h == chat_memory.messages[u]
                  IN  /\ Len(tasks'[u]) = 1
                      /\ Has(chat_memory'.messages, u)
                      /\ chat_memory'.messages[u] =
                           h \o [k \in 1..Len(calls) |->
                                   [type |-> "function_call_output",
                                    call_id |-> calls[k].call_id,
                                    output |-> IF results[k] = Raised THEN ERROR_MSG
                                               ELSE results[k].value]]
      ]_vars

\* C5, as claimed: a request that names no tool of the registry never
\* aborts the run; when the next completion call is issued, that request
\* has a tool output holding ERROR_MSG.
C5_MissingToolAbsorbed ==
    /\ event.error # "KeyError"
    /\ \A u \in RunUsers : \A i \in 1..Len(tasks[u]) :
         tasks[u][i].pc = "AwaitingCompletion" =>
            LET h == chat_memory.messages[u]
            IN  \A j \in 1..Len(h) :
                  (IsRequest(h[j]) /\ h[j].name \notin available_tools) =>
                     \E k \in OutputsFor(h, j) : k > j /\ h[k].output = ERROR_MSG

\* The reply a completion result stands for: the text of its first message
\* item that has one, "No Answer" without any.
ExpectedReply(ai_output) ==
    LET texts == {j \in 1..Len(ai_output) :
                    ai_output[j].type = "message" /\ ai_output[j].content # << >>}
    IN  IF texts = {} THEN "No Answer"
        ELSE ai_output[CHOOSE j \in texts : \A l \in texts : j <= l].content[1]

\* C6: a run that returns a reply does so at a completion result without
\* tool-call items, and no such result leaves the run in flight; the reply
\* is the text of that result's first message item that has a text, or
\* "No Answer", and the Assistant message with that text is the last
\* element of the history.
C6_RunEndsWithFinalAnswer ==
    \A u \in RunUsers :
        /\ (event.kind = "finished" /\ event.user = u) =>
              LET ai_output == get_ai_output(chat_memory, u)
                  h == Get(chat_memory.messages, u, << >>)
              IN  /\ NoToolCalls(ai_output)
                  /\ event.reply = ExpectedReply(ai_output)
                  /\ Len(h) > 0
                  /\ h[Len(h)] = [role |-> "assistant", content |-> event.reply]
                  /\ tasks[u] = << >>
        /\ \A i \in 1..Len(tasks[u]) :
              (tasks[u][i].round > 1 \/ tasks[u][i].pc = "ToolsRequested") =>
                 ~NoToolCalls(get_ai_output(chat_memory, u))

\* The second run of a user has returned the text of the second message
\* item of the result, the first one having no text.
C6_Witness ==
    /\ event.kind = "finished"
    /\ event.user = "u1"
    /\ event.reply = "a2"
    /\ Len(chat_memory.messages["u1"]) = 5

\* C7: whenever a completion call is awaited, every tool-call request in
\* the history passed to it has exactly one tool output with its call id,
\* placed after it, and no result of the run is pending.
C7_RoundsSequential ==
    \A u \in RunUsers : \A i \in 1..Len(tasks[u]) :
        tasks[u][i].pc = "AwaitingCompletion" =>
            LET h == chat_memory.messages[u]
            IN  /\ gather_done(tasks[u][i].results)
                /\ \A j \in 1..Len(h) :
                     IsRequest(h[j]) =>
                        /\ Cardinality(OutputsFor(h, j)) = 1
                        /\ \A k \in OutputsFor(h, j) : k > j

\* The third completion call of a run is awaited, and the two tools of the
\* round before ended in the reverse of their request order.
C7_Witness ==
    /\ Len(tasks["u1"]) = 1
    /\ tasks["u1"][1].pc = "AwaitingCompletion"
    /\ tasks["u1"][1].round = 3
    /\ tasks["u1"][1].order = <<2, 1>>
    /\ Cardinality({j \in 1..Len(chat_memory.messages["u1"]) :
                      IsRequest(chat_memory.messages["u1"][j])}) >= 3

-----------------------------------------------------------------------------
(* The inactivity sweep. *)

\* The cleanup task sleeps and runs again for as long as the service is
\* up, and time passes.
FairSpec == SpecSweep /\ WF_vars(Tick) /\ WF_vars(Sweep)

\* What ChatMemory holds of a user.
ChatOf(cm, u) ==
    <<Has(cm.messages, u), Get(cm.messages, u, << >>),
      Has(cm.tool_msgs, u), Get(cm.tool_msgs, u, << >>),
      Has(cm.ai_output, u), Get(cm.ai_output, u, << >>)>>

\* C8: a sweep changes no coroutine; it leaves the conversation of a user
\* whose run is in flight as it is; and a conversation it deletes belongs to
\* a user whose last recorded activity is older than the TTL and who has no
\* run in flight.
C8_SweepSparesRunsInFlight ==
    [][event'.kind = "sweep" =>
         \A u \in Users :
            /\ tasks'[u] = tasks[u]
            /\ users_in_process' = users_in_process
            /\ Len(tasks[u]) > 0 =>
                  /\ ChatOf(chat_memory', u) = ChatOf(chat_memory, u)
                  /\ Has(last_activity', u) = Has(last_activity, u)
            /\ ChatOf(chat_memory', u) # ChatOf(chat_memory, u) =>
                  /\ Has(last_activity, u)
                  /\ now - last_activity[u] > INACTIVITY_TTL_SECONDS
                  /\ Len(tasks[u]) = 0
                  /\ ~Has(chat_memory'.messages, u)
      ]_vars

\* A sweep has just run while the run of u1 is in flight, u1's last recorded
\* activity being older than the TTL: the conversation is still there.
C8_Witness ==
    /\ event.kind = "sweep"
    /\ Len(tasks["u1"]) = 1
    /\ Has(last_activity, "u1")
    /\ now - last_activity["u1"] > INACTIVITY_TTL_SECONDS
    /\ Has(chat_memory.messages, "u1")
    /\ Len(chat_memory.messages["u1"]) >= 4

\* C9: a user who has completed a run at a time from which the TTL can
\* elapse, and who has no run in flight, eventually has the conversation and
\* the last-activity entry removed, unless a new message of the user is
\* accepted first; and a message accepted from a user without last-activity
\* entry starts from the system prompt alone.
C9_InactiveUserEventuallySwept ==
    /\ \A u \in Users :
         ( /\ Len(tasks[u]) = 0
           /\ Has(last_activity, u)
           /\ last_activity[u] + INACTIVITY_TTL_SECONDS < MaxTime )
         ~> ( \/ ~Has(last_activity, u) /\ ~Has(chat_memory.messages, u)
              \/ Len(tasks[u]) > 0 )
    /\ [](\A u \in Users :
            (event.kind = "accepted" /\ event.user = u /\ ~Has(last_activity, u)) =>
               /\ Len(chat_memory.messages[u]) = 2
               /\ chat_memory.messages[u][1] = init_msg
               /\ chat_memory.messages[u][2].role = "user")

\* The sweep has removed u1, who had completed a run, and the next message
\* of u1 has been accepted.
C9_Witness ==
    /\ event.kind = "accepted"
    /\ event.user = "u1"
    /\ now >= 2
    /\ ~Has(last_activity, "u1")
    /\ chat_memory.messages["u1"] = <<init_msg, [role |-> "user", content |-> "hola"]>>

-----------------------------------------------------------------------------
(* The two forms of the loop. *)

\* C10, as claimed: on the same initial history, completion results and tool
\* outcomes, process_msg and async_process_msg are in the same state after
\* every round: the same reply or the same failure, the same history, tool
\* buffer and last raw result.
C10_PathsAgree ==
    paths.pc = "run" => paths.blocking = paths.nonblocking

-----------------------------------------------------------------------------
(* The conversation store. *)

\* C11: in every state of the service, the history of every user who has one
\* starts with the Developer system-prompt message: adding the user message,
\* recording a completion, recording a tool output and the purge at the end
\* of a run leave it first; only the deletion of the conversation removes it.
C11_PromptStaysFirst ==
    \A u \in Users :
        Has(chat_memory.messages, u) =>
            /\ Len(chat_memory.messages[u]) > 0
            /\ chat_memory.messages[u][1] = init_msg
            /\ \A j \in 2..Len(chat_memory.messages[u]) :
                   chat_memory.messages[u][j] # init_msg

\* A second run of a user has ended: two purges have run on the history.
C11_Witness ==
    /\ event.kind = "finished"
    /\ Has(chat_memory.messages, event.user)
    /\ Len(chat_memory.messages[event.user]) = 5
    /\ chat_memory.messages[event.user][1] = init_msg

\* C12: get_messages with the system prompt included, for a user who has no
\* history, returns the one-element list holding the system prompt, and the
\* user has that conversation afterwards.
C12_GetCreatesPromptOnly ==
    [][(event'.kind = "get_messages" /\ event'.args = <<TRUE>>
        /\ ~Has(chat_memory.messages, event'.user))
       => /\ event'.reply = <<init_msg>>
          /\ has_chat(chat_memory', event'.user)
          /\ chat_memory'.messages[event'.user] = <<init_msg>>
          /\ chat_memory' = [chat_memory EXCEPT
                               !.messages = Put(@, event'.user, <<init_msg>>)]]_vars

\* get_messages was called for a user without a history, while the other
\* user had one.
C12_Witness ==
    /\ event.kind = "get_messages"
    /\ event.args = <<TRUE>>
    /\ ~event.existed
    /\ event.reply = <<init_msg>>
    /\ \E u \in Users \ {event.user} : HistoryLen(chat_memory, u) > 1

\* C13, as claimed: add_msg with a valid role succeeds and makes the user's
\* history (as get_messages shows it) one message longer; add_msg with an
\* invalid role reports the failure and leaves the whole memory as it was.
C13_AppendChecksRole ==
    [][event'.kind = "add_msg" =>
         LET u == event'.user
             role == event'.args[2]
         IN  IF MessageType_has_value(role)
             THEN /\ event'.reply = TRUE
                  /\ chat_memory'.messages[u] =
                        Append(get_messages(chat_memory, u, TRUE),
                               [role |-> role, content |-> event'.args[1]])
             ELSE /\ event'.reply = FALSE \/ event'.error = "InvalidRoleError"
                  /\ chat_memory' = chat_memory]_vars

\* C14: set_messages with a list that holds a message of invalid role, at
\* whatever position, raises and leaves the memory as it was; with valid
\* roles only, the user's stored history becomes the given list and nothing
\* else changes.
C14_ReplaceAllOrNothing ==
    [][event'.kind = "set_messages" =>
         LET u == event'.user
             messages == event'.args[1]
         IN  IF \E i \in 1..Len(messages) : ~MessageType_has_value(messages[i].role)
             THEN /\ event'.error = "SetMessagesError"
                  /\ chat_memory' = chat_memory
             ELSE /\ event'.error = None
                  /\ chat_memory' = [chat_memory EXCEPT
                                       !.messages = Put(@, u, messages)]]_vars

\* set_messages was refused for a list whose last message has the invalid
\* role, for a user whose history holds more than the system prompt.
C14_Witness ==
    /\ event.kind = "set_messages"
    /\ event.error = "SetMessagesError"
    /\ Len(event.args[1]) = 3
    /\ event.args[1][3].role = "bogus"
    /\ event.existed
    /\ Len(chat_memory.messages[event.user]) = 3

\* C15: a second _purge_tool_msgs right after a first one changes nothing
\* (history, tool buffer and last raw result are those the first one left),
\* and _purge_tool_msgs for a user who has a history and an empty tool
\* buffer changes nothing at all.
C15_PurgeIdempotent ==
    [][event'.kind = "_purge_tool_msgs" =>
         /\ event'.error = None
         /\ _purge_tool_msgs(chat_memory', event'.user) = chat_memory'
         /\ (Has(chat_memory.messages, event'.user)
             /\ get_tool_msgs(chat_memory, event'.user) = << >>)
            => chat_memory' = chat_memory]_vars

\* A purge has emptied a tool buffer and left a history of several messages.
C15_Witness ==
    /\ event.kind = "_purge_tool_msgs"
    /\ event.existed
    /\ Has(chat_memory.tool_msgs, event.user)
    /\ chat_memory.tool_msgs[event.user] = << >>
    /\ Has(chat_memory.ai_output, event.user)
    /\ Len(chat_memory.messages[event.user]) >= 2

\* C16: _purge_tool_msgs leaves in the history no message of the tool
\* buffer, removes nothing else, keeps the Developer, User and Assistant
\* messages in their order, and leaves the tool buffer empty; a message
\* whose text is that of a buffered tool output stays.
C16_PurgeRemovesBufferOnly ==
    [][event'.kind = "_purge_tool_msgs" =>
         LET u == event'.user
             h == get_messages(chat_memory, u, TRUE)
             h2 == chat_memory'.messages[u]
             buf == get_tool_msgs(chat_memory, u)
             Buffered(m) == Contains(buf, m)
             Kept(m) == ~Contains(buf, m)
         IN  /\ get_tool_msgs(chat_memory', u) = << >>
             /\ \A j \in 1..Len(h2) : ~Buffered(h2[j])
             /\ h2 = Filter(h, Kept)
             /\ Filter(h2, IsChatMsg) = Filter(h, IsChatMsg)
             /\ chat_memory'.ai_output = chat_memory.ai_output]_vars

\* A purge removed a buffered tool output "r1" and kept a message "r1".
C16_Witness ==
    /\ event.kind = "_purge_tool_msgs"
    /\ \E j \in 1..Len(event.buffered) :
          /\ "output" \in DOMAIN event.buffered[j]
          /\ event.buffered[j].output = "r1"
    /\ \E j \in 1..Len(chat_memory.messages[event.user]) :
          chat_memory.messages[event.user][j] = [role |-> "user", content |-> "r1"]
    /\ Len(chat_memory.messages[event.user]) = 2

\* C17, as claimed: for a user who has a history, _set_ai_output stores the
\* result as the last completion, appends all its output items to the
\* history in order, and appends to the tool buffer only the items shaped as
\* tool outputs, so that message, reasoning and tool-call items stay out of
\* the buffer.
C17_BufferGetsToolOutputsOnly ==
    [][(event'.kind = "_set_ai_output" /\ Has(chat_memory.messages, event'.user)) =>
         LET u == event'.user
             ai_output == event'.args[1]
             IsOutput(item) == "output" \in DOMAIN item
         IN  /\ get_ai_output(chat_memory', u) = ai_output
             /\ chat_memory'.messages[u] = chat_memory.messages[u] \o ai_output
             /\ get_tool_msgs(chat_memory', u) =
                   get_tool_msgs(chat_memory, u) \o Filter(ai_output, IsOutput)]_vars

\* C17, amended: _set_ai_output stores the result as the user's last
\* completion; for a user who has a history it appends every output item of
\* the result, in order, to the history and to the tool buffer alike; for a
\* user without a history it returns False and stores nothing else.
C17_RecordCompletionBuffersAll ==
    [][event'.kind = "_set_ai_output" =>
         LET u == event'.user
             ai_output == event'.args[1]
             c1 == [chat_memory EXCEPT !.ai_output = Put(@, u, ai_output)]
         IN  IF Has(chat_memory.messages, u)
             THEN /\ event'.reply = None
                  /\ chat_memory' =
                        [c1 EXCEPT
                           !.messages = Put(@, u, chat_memory.messages[u] \o ai_output),
                           !.tool_msgs = Put(@, u, get_tool_msgs(chat_memory, u)
                                                       \o ai_output)]
             ELSE /\ event'.reply = FALSE
                  /\ chat_memory' = c1]_vars

\* A completion result of two items, neither a tool output, was recorded for
\* a user whose tool buffer already held something.
C17_Witness ==
    /\ event.kind = "_set_ai_output"
    /\ event.existed
    /\ Len(event.args[1]) = 2
    /\ event.buffered # << >>
    /\ chat_memory.tool_msgs[event.user] = event.buffered \o event.args[1]

\* C18: after delete_chat the user has no conversation, no tool buffer and
\* no last raw result, whatever was stored; a following get_messages
\* returns the system prompt alone, as for a user never seen; deleting a
\* user who has nothing stored changes nothing, and the entries of every
\* other user stay as they were.
C18_DeleteRemovesAll ==
    [][event'.kind = "delete_chat" =>
         LET u == event'.user
         IN  /\ ~has_chat(chat_memory', u)
             /\ get_tool_msgs(chat_memory', u) = << >>
             /\ get_ai_output(chat_memory', u) = << >>
             /\ ~Has(chat_memory'.messages, u)
             /\ ~Has(chat_memory'.tool_msgs, u)
             /\ ~Has(chat_memory'.ai_output, u)
             /\ get_messages(chat_memory', u, TRUE) = <<init_msg>>
             /\ \A v \in Users \ {u} :
                   /\ Has(chat_memory'.messages, v) = Has(chat_memory.messages, v)
                   /\ Get(chat_memory'.messages, v, << >>) = Get(chat_memory.messages, v, << >>)
                   /\ Has(chat_memory'.tool_msgs, v) = Has(chat_memory.tool_msgs, v)
                   /\ get_tool_msgs(chat_memory', v) = get_tool_msgs(chat_memory, v)
                   /\ Has(chat_memory'.ai_output, v) = Has(chat_memory.ai_output, v)
                   /\ get_ai_output(chat_memory', v) = get_ai_output(chat_memory, v)
             /\ (~Has(chat_memory.messages, u) /\ ~Has(chat_memory.tool_msgs, u)
                 /\ ~Has(chat_memory.ai_output, u))
                => chat_memory' = chat_memory]_vars

\* The conversation of a user with a filled tool buffer was deleted while
\* the other user had a history.
C18_Witness ==
    /\ event.kind = "delete_chat"
    /\ event.existed
    /\ Len(event.buffered) >= 2
    /\ \E v \in Users \ {event.user} : has_chat(chat_memory, v)

-----------------------------------------------------------------------------
(* The arguments of the tool calls. *)

\* C19: every function called for a run of user u is called with the
\* arguments decoded from the request and with phone = u, also when the
\* decoded arguments name another phone; every custom tool is called with
\* tool_input, the raw input of the request, and nothing else.
C19_PhoneIsActingUser ==
    \A u \in Users : \A i \in 1..Len(tasks[u]) :
        LET run == tasks[u][i]
        IN  run.pc = "ToolsRequested" =>
              /\ Len(run.kwargs) = Len(run.calls)
              /\ \A k \in 1..Len(run.calls) :
                    IF run.phase = "functions"
                    THEN LET decoded == json_loads(run.calls[k].arguments)
                         IN  /\ DOMAIN run.kwargs[k] = DOMAIN decoded \cup {"phone"}
                             /\ run.kwargs[k]["phone"] = u
                             /\ \A key \in DOMAIN decoded \ {"phone"} :
                                   run.kwargs[k][key] = decoded[key]
                    ELSE /\ DOMAIN run.kwargs[k] = {"tool_input"}
                         /\ run.kwargs[k]["tool_input"] = run.calls[k].input

\* Both users have a run whose functions were called; the arguments of one
\* request of each named the phone "intruso".
C19_Witness ==
    \A u \in Users :
        /\ Len(tasks[u]) = 1
        /\ tasks[u][1].pc = "ToolsRequested"
        /\ tasks[u][1].phase = "functions"
        /\ tasks[u][1].calls[1].arguments = PhoneJson
        /\ tasks[u][1].kwargs[1]["phone"] = u

-----------------------------------------------------------------------------
(* Messages for a busy user. *)

\* C20: a busy-hit changes only the wait index of its user (and sends the
\* wait notice): the histories, tool buffers and last raw results, the busy
\* flags, the last-activity entries and the coroutines in flight are as they
\* were, no coroutine is added for the message, and the text of a rejected
\* message is in no history in any later state.
C20_BusyHitLeavesRunAlone ==
    /\ [][event'.kind = "busy_hit" =>
            /\ chat_memory' = chat_memory
            /\ users_in_process' = users_in_process
            /\ last_activity' = last_activity
            /\ tasks' = tasks
            /\ \A v \in Users \ {event'.user} :
                  Get(wait_msg_index', v, 0) = Get(wait_msg_index, v, 0)]_vars
    /\ [](\A u \in Users :
            \A j \in 1..Len(Get(chat_memory.messages, u, << >>)) :
               LET msg == chat_memory.messages[u][j]
               IN  IsChatMsg(msg) => msg.content \notin BusyMessages)

\* A user whose messages were answered with two wait notices has ended a
\* second run with its reply.
C20_Witness ==
    /\ event.kind = "finished"
    /\ busy_hits[event.user] >= 2
    /\ Len(chat_memory.messages[event.user]) = 5

-----------------------------------------------------------------------------
(* Runs of different users. *)

\* C21: every step of the handler of a user A (the message accepted, a
\* completion recorded, the tools started, a tool finished, the tool outputs
\* recorded, the run finished with its purge, the run failed with its reset,
\* a busy-hit) leaves the history, the tool buffer, the last raw result, the
\* busy flag and the wait index of every other user B as they were, in every
\* interleaving of the runs of the two users.
C21_UsersIndependent ==
    [][event'.user \in Users =>
         \A b \in Users \ {event'.user} :
            /\ Has(chat_memory'.messages, b) = Has(chat_memory.messages, b)
            /\ Get(chat_memory'.messages, b, << >>) = Get(chat_memory.messages, b, << >>)
            /\ Has(chat_memory'.tool_msgs, b) = Has(chat_memory.tool_msgs, b)
            /\ get_tool_msgs(chat_memory', b) = get_tool_msgs(chat_memory, b)
            /\ Has(chat_memory'.ai_output, b) = Has(chat_memory.ai_output, b)
            /\ get_ai_output(chat_memory', b) = get_ai_output(chat_memory, b)
            /\ Has(users_in_process', b) = Has(users_in_process, b)
            /\ Get(users_in_process', b, FALSE) = Get(users_in_process, b, FALSE)
            /\ Has(wait_msg_index', b) = Has(wait_msg_index, b)
            /\ Get(wait_msg_index', b, 0) = Get(wait_msg_index, b, 0)
            /\ tasks'[b] = tasks[b]]_vars

\* The run of one user has failed and its conversation was reset while the
\* run of the other user was waiting for its tool, its buffer filled.
C21_Witness ==
    /\ event.kind = "failed"
    /\ \E b \in Users \ {event.user} :
          /\ Len(tasks[b]) = 1
          /\ tasks[b][1].pc = "ToolsRequested"
          /\ get_tool_msgs(chat_memory, b) # << >>
          /\ Get(users_in_process, b, FALSE)

-----------------------------------------------------------------------------
(* What the user is sent. *)

\* C22, as claimed: when the handling of an accepted message ends, the user
\* has been sent the reply of the model or the apology; the handling never
\* ends with nothing sent.
C22_ReplyOrApologySent ==
    event.kind \in {"finished", "failed"} =>
        \/ event.reply # None /\ event.sent = send_ai_msg(event.reply, event.user)
        \/ event.sent = <<Notification(event.user, APOLOGY)>>

-----------------------------------------------------------------------------
(* The number of rounds. *)

\* C23: a run finishes at a completion result if and only if that result has
\* no tool-call item; a result with a tool-call item starts its tools in
\* every round, however many rounds came before, and the run stays in flight
\* with the user busy; and when every awaited call returns and the service
\* comes to a result without tool calls, the run ends and the user is no
\* longer busy.
C23_RunEndsOnlyWithoutToolCalls ==
    /\ [][\A u \in RunUsers :
            (Len(tasks[u]) = 1 /\ tasks[u][1].pc = "AwaitingCompletion"
             /\ event'.user = u /\ event'.error # "CompletionError") =>
               /\ event'.kind = "finished"
                  => NoToolCalls(get_ai_output(chat_memory', u))
               /\ event'.kind = "tools_started"
                  => /\ ~NoToolCalls(get_ai_output(chat_memory', u))
                     /\ Len(tasks'[u]) = 1
                     /\ tasks'[u][1].round = tasks[u][1].round
                     /\ Get(users_in_process', u, FALSE)
               /\ event'.kind \in {"finished", "tools_started", "failed"}
               /\ (event'.kind = "failed") => event'.error # None]_vars
    /\ [](\A u \in RunUsers : Len(tasks[u]) > 0 => Get(users_in_process, u, FALSE))
    /\ \A u \in RunUsers :
          Get(users_in_process, u, FALSE) ~> ~Get(users_in_process, u, FALSE)

\* A run awaits a completion after tools were requested in each of
\* MaxRounds rounds, and its user is busy.
C23_Witness ==
    \E u \in RunUsers :
       /\ Len(tasks[u]) = 1
       /\ tasks[u][1].round = MaxRounds + 1
       /\ tasks[u][1].pc = "AwaitingCompletion"
       /\ Get(users_in_process, u, FALSE)

-----------------------------------------------------------------------------
(* What a successful run leaves in the history. *)

\* A Developer, User or Assistant message.
IsConversationMsg(m) == IsChatMsg(m) /\ m.role \in {"developer", "user", "assistant"}

\* The stored list of a user.
Stored(cm, u) == Get(cm.messages, u, << >>)

-----------------------------------------------------------------------------
(* The exits of the handler. *)

\* C25: every exit of a run (its reply sent, no reply, an exception that
\* escapes the handler) clears the busy flag of its user, records the time of
\* the exit as the user's last activity and leaves the user with no run, so
\* that the user's next message is accepted; a message that arrives for a
\* busy user changes no busy flag and ends no run; and the flag of a user is
\* set exactly while the user has a run.
C25_ExitClearsBusyFlag ==
    /\ [][/\ event'.kind \in {"finished", "failed", "escaped"} =>
               /\ Len(tasks[event'.user]) = 1
               /\ Get(users_in_process, event'.user, FALSE)
               /\ Has(users_in_process', event'.user)
               /\ users_in_process'[event'.user] = FALSE
               /\ Has(last_activity', event'.user)
               /\ last_activity'[event'.user] = now'
               /\ Len(tasks'[event'.user]) = 0
          /\ event'.kind = "busy_hit" =>
               /\ users_in_process' = users_in_process
               /\ tasks' = tasks
               /\ last_activity' = last_activity]_vars
    /\ [](\A u \in Users : Get(users_in_process, u, FALSE) <=> Len(tasks[u]) = 1)

\* A run that a message of its user and a message of the other user ran
\* into has ended after time passed.
C25_Witness ==
    /\ event.kind \in {"finished", "failed", "escaped"}
    /\ busy_hits[event.user] > 0
    /\ now > 0
    /\ last_activity[event.user] = now
    /\ ~Get(users_in_process, event.user, FALSE)
    /\ \E b \in Users \ {event.user} : Get(users_in_process, b, FALSE) /\ busy_hits[b] > 0

-----------------------------------------------------------------------------
(* The tool buffer and the history. *)

-----------------------------------------------------------------------------
(* The verification of the webhook. *)

\* C27, as claimed: a request with mode subscribe and the expected token is
\* answered with its challenge; every request with another mode or another
\* token is answered with status 403; status 500 is the answer to an
\* unexpected error only, here a challenge that is no number.
C27_RejectedWith403 ==
    event.kind = "verify" =>
       LET accepted == event.mode = "subscribe" /\ event.token = WHATSAPP_VERIFY_TOKEN
       IN  /\ (accepted /\ int_error(event.challenge) = None) =>
                 event.response = HTTPResponse(200, int_value(event.challenge.chars))
           /\ ~accepted => event.response.status = 403
           /\ event.response.status = 500 =>
                 accepted /\ int_error(event.challenge) # None

-----------------------------------------------------------------------------
(* The registry of users. *)

\* C28, as claimed: set_user_data for an email that has a record leaves the
\* record of that email with the name, phone and telegram_id supplied and
\* returns the success text; for an email without a record it leaves the
\* registry as it was and returns the not-registered text.
C28_SetUserDataUpdatesRecord ==
    event.kind = "set_user_data" =>
       IF HasEmail(event.before, event.email)
       THEN /\ event.result = <<"Datos actualizados">>
            /\ \E j \in 1..Len(paths.file.users) :
                  paths.file.users[j] =
                     UserRecord(event.email, event.phone, event.telegram_id, event.name)
       ELSE /\ paths.file = event.before
            /\ event.result = <<"El usuario con email ", event.email, " no está registrado">>

\* C29: the emails of the registry stay pairwise distinct under every
\* sequence of calls of the four tools; user_register for an email that has a
\* record leaves the registry as it was and returns the already-registered
\* text, and for another email it appends exactly one record, with that
\* email; fast_user_check leaves the registry as it was.
C29_EmailsStayDistinct ==
    /\ \A j, k \in 1..Len(paths.file.users) :
          paths.file.users[j].email = paths.file.users[k].email => j = k
    /\ event.kind = "user_register" =>
          IF HasEmail(event.before, event.email)
          THEN /\ paths.file = event.before
               /\ event.result = <<"El usuario con email ", event.email, " ya está registrado">>
          ELSE /\ paths.file.exists
               /\ paths.file.users =
                     Append(event.before.users,
                            UserRecord(event.email, event.phone, event.telegram_id,
                                       event.name))
    /\ event.kind = "fast_user_check" => paths.file = event.before

\* user_register was called for an email that has a record, in a registry
\* of two records that user_check has changed.
C29_Witness ==
    /\ event.kind = "user_register"
    /\ HasEmail(event.before, event.email)
    /\ Len(paths.file.users) = 2
    /\ \E j \in 1..2 : paths.file.users[j].phone = "p2"

-----------------------------------------------------------------------------
(* The chunks of a long reply. *)

\* C30: for every reply and every positive limit send_ai_msg comes to its
\* end, every iteration of its loop moving the start forward; a reply within
\* the limit is sent as the one message it is; a longer reply is sent as
\* chunks of at most limit characters, each the text between two cuts
\* without its leading and trailing whitespace, the cuts going through the
\* reply from its start to its end in order, with nothing between one cut
\* and the next but a single newline.
C30_ChunksCoverReply ==
    /\ [][paths.pc = "loop" => paths'.start > paths.start]_vars
    /\ (paths.pc = "loop") ~> (paths.pc = "done")
    /\ [](paths.pc = "done" /\ Len(paths.ai_msg) <= paths.limit
             => paths.sent = <<paths.ai_msg>>)
    /\ [](paths.pc = "done" /\ Len(paths.ai_msg) > paths.limit =>
            LET cuts == paths.cuts
                text == paths.ai_msg
            IN  /\ Len(paths.sent) = Len(cuts)
                /\ cuts[1][1] = 0
                /\ cuts[Len(cuts)][2] \in {Len(text), Len(text) - 1}
                /\ \A k \in 1..Len(cuts) :
                      /\ cuts[k][1] < cuts[k][2]
                      /\ cuts[k][2] <= Len(text)
                      /\ Len(paths.sent[k]) <= paths.limit
                      /\ paths.sent[k] = strip(SubSeq(text, cuts[k][1] + 1, cuts[k][2]))
                      /\ k < Len(cuts) =>
                            \/ cuts[k + 1][1] = cuts[k][2]
                            \/ /\ cuts[k + 1][1] = cuts[k][2] + 1
                               /\ text[cuts[k][2] + 1] = "\n"
                /\ cuts[Len(cuts)][2] = Len(text) - 1 => text[Len(text)] = "\n")

\* A reply longer than the limit has been sent in chunks: one cut was moved
\* back to a newline, which was dropped, and a chunk lost a space.
C30_Witness ==
    /\ paths.pc = "done"
    /\ Len(paths.ai_msg) > paths.limit
    /\ \E k \in 1..(Len(paths.cuts) - 1) :
          /\ paths.cuts[k][2] < paths.cuts[k][1] + paths.limit
          /\ paths.cuts[k + 1][1] = paths.cuts[k][2] + 1
    /\ \E k \in 1..Len(paths.cuts) :
          Len(paths.sent[k]) < paths.cuts[k][2] - paths.cuts[k][1]

====
